---- MODULE Spec2Model ----
(***************************************************************************)
(* Maze generation and post-processing engine (Scrobs/Maze).               *)
(*                                                                         *)
(* A Maze is a record [width, height, start, finish, cells]; cells maps a  *)
(* coordinate <<x, y>> to the set of directions in which the MazeCell has  *)
(* a wall (MazeCell.walls).  Every generator and post-processor is a       *)
(* sequence of steps over the maze it owns; each specification below       *)
(* (SpecWilsons, SpecKruskals, ...) runs one of them from its entry state  *)
(* under every outcome of Math.random().                                   *)
(***************************************************************************)
EXTENDS Integers, Sequences, FiniteSets, TLC

VARIABLES
    width,         \* the width argument of the running function
    height,        \* the height argument of the running function
    maze,          \* the Maze object the running function owns
    pc,            \* position in the running function
    visited,       \* visited[y][x] = true, as a set of cells
    cur,           \* <<currentX, currentY>>
    visitedCells,  \* generateWilsons: visitedCells counter
    path,          \* generateWilsons: the loop-erased walk's path list
    walkSteps,     \* generateWilsons: walkSteps counter
    uf,            \* generateKruskals: the UnionFind object
    edges,         \* the shuffled edge list, as the set of entries not yet iterated
    edgesAdded,    \* generateKruskals: edgesAdded counter
    stack,         \* generateRecursiveBacktracker: the explicit stack
    totalVisited,  \* generateRecursiveBacktracker: totalVisited counter
    iterations,    \* generateRecursiveBacktracker: iterations counter
    emergency,     \* generateRecursiveBacktracker: the emergency jump was taken
    options,       \* generateMultiLayer: the options argument
    mazes,         \* generateMultiLayer: the layer mazes generated so far
    portalList,    \* generateMultiLayer: flatMaze._portals
    edgesRemoved,  \* ensureSinglePath: edgesRemoved counter
    targetRemovals,\* ensureSinglePath: targetRemovals
    entries,       \* the maze as it was at the entry of each post-processor call so far
    target,        \* balanceDistribution: the target argument
    currentDist,   \* balanceDistribution: currentDist
    maxDeadEndReductions, \* balanceDistribution: phase 1 budget
    deadEndReductions,    \* balanceDistribution: phase 1 counter
    maxThreeWayIncrease,  \* balanceDistribution: phase 2 budget
    threeWayIncrease,     \* balanceDistribution: phase 2 counter
    attempts,      \* balanceDistribution: attempts counter
    loc            \* the other locals of the running function, by their names

wilsonsVars == <<visitedCells, path, walkSteps>>
kruskalsVars == <<uf, edgesAdded>>
rbVars == <<stack, totalVisited, iterations, emergency>>
mlVars == <<options, mazes, portalList>>
espVars == <<edgesRemoved, targetRemovals, entries>>
balVars == <<target, currentDist, maxDeadEndReductions, deadEndReductions,
             maxThreeWayIncrease, threeWayIncrease, attempts>>

vars == <<width, height, maze, pc, visited, cur, edges, loc,
          wilsonsVars, kruskalsVars, rbVars, mlVars, espVars, balVars>>

\* what a step of each function leaves alone
notWilsons == <<loc, edges, kruskalsVars, rbVars, mlVars, espVars, balVars>>
notKruskals == <<loc, visited, cur, wilsonsVars, rbVars, mlVars, espVars, balVars>>
notRB == <<loc, edges, wilsonsVars, kruskalsVars, espVars, balVars>>
notESP == <<loc, width, height, visited, cur, wilsonsVars, kruskalsVars, rbVars, mlVars, balVars>>
notBal == <<loc, width, height, visited, cur, edges, wilsonsVars, kruskalsVars, rbVars, mlVars,
            edgesRemoved, targetRemovals>>
notML == <<loc, edges, wilsonsVars, kruskalsVars, espVars, balVars>>
\* the generators below keep their locals in loc, visited and cur
notGen == <<edges, wilsonsVars, kruskalsVars, rbVars, mlVars, espVars, balVars>>

(***************************************************************************)
(* Bounds of the model.                                                    *)
(***************************************************************************)
\* the Maze constructor is called with widths and heights up to this number
\* and a half
MaxDim == 3

\* the cell grids supplied to the Maze constructor have at most this many cells
MaxCellsClass == 4

\* the union-find structure of generateKruskals is followed step by step on
\* every grid of at most this many cells
MaxCellsUnionFind == 6

\* the generators are run on every grid of at most this many cells
\* (width, height >= 2)
MaxCellsWilsons == 6

MaxCellsKruskals == 8

MaxCellsRB == 9

MaxCellsEller == 8

MaxCellsPrims == 8

MaxCellsHK == 9

MaxCellsAB == 6

MaxCellsSW == 12

MaxCellsPost == 12

\* generateBraided is given base mazes of at most this many cells
MaxCellsBraidBase == 9

MaxCellsSparse == 9

\* generateMultiLayer is run with layers of at most this many cells
MaxCellsLayer == 6

\* options.layers and options.portals range over 0 (absent) .. these values
MaxOptLayers == 3

MaxOptPortals == 3

\* the post-processors are run on every input maze of at most this many cells
MaxCellsInput == 6

\* an input maze has at most this many passages open on one side only
MaxAsym == 1

\* a post-processor is called at most this many times in a row on one maze
MaxCalls == 2

\* target ratios are the multiples of 1/TargetDen in [0, 1]
TargetDen == 3

GridDims(n) == {d \in (2..n) \X (2..n) : d[1] * d[2] <= n}

(***************************************************************************)
(* Grid / cell model (src/model/maze.js).                                  *)
(***************************************************************************)
Dirs == {"N", "E", "S", "W"}

deltas(dir) ==
    CASE dir = "N" -> <<0, -1>>
      [] dir = "E" -> <<1, 0>>
      [] dir = "S" -> <<0, 1>>
      [] dir = "W" -> <<-1, 0>>

opposite(dir) ==
    CASE dir = "N" -> "S"
      [] dir = "E" -> "W"
      [] dir = "S" -> "N"
      [] dir = "W" -> "E"

CellsOf(w, h) == (0..(w - 1)) \X (0..(h - 1))

InBounds(w, h, c) == c[1] >= 0 /\ c[1] < w /\ c[2] >= 0 /\ c[2] < h

Neighbor(c, dir) == <<c[1] + deltas(dir)[1], c[2] + deltas(dir)[2]>>

\* new MazeCell() : a cell is constructed with an empty wall set
MazeCell == {}

\* new Maze(w, h, start, finish) : a grid of freshly constructed cells
NewMaze(w, h, start, finish) ==
    [width |-> w, height |-> h, start |-> start, finish |-> finish,
     cells |-> [c \in CellsOf(w, h) |-> MazeCell]]

hasWall(m, c, dir) == dir \in m.cells[c]

addWall(m, c, dir) == [m EXCEPT !.cells[c] = @ \cup {dir}]

removeWall(m, c, dir) == [m EXCEPT !.cells[c] = @ \ {dir}]

\* the "start with ALL walls on ALL cells" loop of every generator
AllWalls(m) == [m EXCEPT !.cells = [c \in DOMAIN m.cells |-> Dirs]]

\* Maze.isValid for a maze whose grid is fully populated: dimensions >= 2,
\* start and finish in bounds, and some cell with fewer than 4 walls
isValid(m) ==
    /\ m.width >= 2 /\ m.height >= 2
    /\ DOMAIN m.cells = CellsOf(m.width, m.height)
    /\ InBounds(m.width, m.height, m.start)
    /\ InBounds(m.width, m.height, m.finish)
    /\ \E c \in DOMAIN m.cells : Cardinality(m.cells[c]) < 4

\* every cell without any wall
AllOpen(m) == [m EXCEPT !.cells = [c \in DOMAIN m.cells |-> {}]]

\* a passage carved with the cell's own opposite wall added instead of the
\* neighbour's matching wall removed
CarveOwnOpposite(m, c, dir) == addWall(removeWall(m, c, dir), c, opposite(dir))

\* carve a passage: removeWall on the cell and on its neighbour
Carve(m, c, dir) == removeWall(removeWall(m, c, dir), Neighbor(c, dir), opposite(dir))

\* position of a cell in a row-major scan (for y ... for x ...)
RowMajor(w, c) == c[2] * w + c[1]

FirstRowMajor(w, S) == CHOOSE c \in S : \A d \in S : RowMajor(w, c) <= RowMajor(w, d)

(***************************************************************************)
(* Connectivity oracle: BFS from start over the sides that have no wall.   *)
(***************************************************************************)
RECURSIVE BFS(_, _, _)
BFS(m, seen, queue) ==
    IF queue = {} THEN seen
    ELSE LET open == UNION {{Neighbor(c, dir) : dir \in Dirs \ m.cells[c]} : c \in queue}
             next == {n \in open : InBounds(m.width, m.height, n)} \ seen
         IN BFS(m, seen \cup next, next)

\* a search that walks through walls: every in-bounds neighbour is entered
isConnectedThroughWalls(m) ==
    Cardinality(BFS(AllOpen(m), {m.start}, {m.start})) = m.width * m.height

isConnected(m) ==
    Cardinality(BFS(m, {m.start}, {m.start})) = m.width * m.height

\* getAllEdges: East and South sides without a wall
getAllEdges(m) ==
    {e \in (DOMAIN m.cells) \X {"E", "S"} :
        /\ InBounds(m.width, m.height, Neighbor(e[1], e[2]))
        /\ ~hasWall(m, e[1], e[2])}

\* countConnections: the East and the South connections are counted apart
countConnections(m) ==
    Cardinality({c \in DOMAIN m.cells : c[1] < m.width - 1 /\ ~hasWall(m, c, "E")})
        + Cardinality({c \in DOMAIN m.cells : c[2] < m.height - 1 /\ ~hasWall(m, c, "S")})

(***************************************************************************)
(* ensureBoundaryWalls, as written in wilsons.js.                          *)
(***************************************************************************)
BoundaryWallsAdded(m) ==
    [m EXCEPT !.cells = [c \in DOMAIN m.cells |->
        m.cells[c]
          \cup (IF c[2] = 0 THEN {"N"} ELSE {})
          \cup (IF c[2] = m.height - 1 THEN {"S"} ELSE {})
          \cup (IF c[1] = 0 THEN {"W"} ELSE {})
          \cup (IF c[1] = m.width - 1 THEN {"E"} ELSE {})]]

ensureBoundaryWallsWilsons(m) ==
    LET b == BoundaryWallsAdded(m)
        s == [b EXCEPT !.cells[m.start] =
                 (@ \ (IF m.start[1] = 0 THEN {"W"} ELSE {}))
                    \ (IF m.start[2] = 0 THEN {"N"} ELSE {})]
    IN [s EXCEPT !.cells[m.finish] =
                 (@ \ (IF m.finish[1] = m.width - 1 THEN {"E"} ELSE {}))
                    \ (IF m.finish[2] = m.height - 1 THEN {"S"} ELSE {})]

\* ensureBoundaryWalls, as written in recursiveBacktracker.js and kruskals.js
OpenSides(m, c) ==
    (IF c[1] = 0 THEN {"W"} ELSE {})
      \cup (IF c[2] = 0 THEN {"N"} ELSE {})
      \cup (IF c[1] = m.width - 1 THEN {"E"} ELSE {})
      \cup (IF c[2] = m.height - 1 THEN {"S"} ELSE {})

ensureBoundaryWalls(m) ==
    LET b == BoundaryWallsAdded(m)
        s == [b EXCEPT !.cells[m.start] = @ \ OpenSides(m, m.start)]
    IN [s EXCEPT !.cells[m.finish] = @ \ OpenSides(m, m.finish)]

(***************************************************************************)
(* The mazes a post-processor is called with: a grid whose interior        *)
(* passages are any set sym of grid edges open on both sides plus a set    *)
(* half of sides open on one side only (the seams generateMultiLayer       *)
(* leaves), with the boundary as ensureBoundaryWalls leaves it or closed.  *)
(***************************************************************************)
AllGridEdges(w, h) ==
    {e \in CellsOf(w, h) \X {"E", "S"} : InBounds(w, h, Neighbor(e[1], e[2]))}

\* the grid edge a side <<cell, dir>> lies on, named from its West/North cell
EdgeOf(side) ==
    IF side[2] \in {"E", "S"} THEN side
    ELSE <<Neighbor(side[1], side[2]), opposite(side[2])>>

InnerSides(w, h) ==
    {sd \in CellsOf(w, h) \X Dirs : InBounds(w, h, Neighbor(sd[1], sd[2]))}

HalfOpenSets(w, h, sym) ==
    {hs \in SUBSET {sd \in InnerSides(w, h) : EdgeOf(sd) \notin sym} :
        /\ Cardinality(hs) <= MaxAsym
        /\ \A a \in hs : \A b \in hs : a # b => EdgeOf(a) # EdgeOf(b)}

InputMaze(w, h, sym, half, openBoundary) ==
    LET full == AllWalls(NewMaze(w, h, <<0, 0>>, <<w - 1, h - 1>>))
        inner == [full EXCEPT !.cells = [c \in DOMAIN full.cells |->
                    {dir \in Dirs : /\ EdgeOf(<<c, dir>>) \notin sym
                                    /\ <<c, dir>> \notin half}]]
    IN IF openBoundary THEN ensureBoundaryWalls(inner) ELSE inner

(***************************************************************************)
(* The locals of a function that is not running.                           *)
(***************************************************************************)
NoLocals == loc = <<>>

NoWilsons == visitedCells = 0 /\ path = <<>> /\ walkSteps = 0

NoKruskals == uf = <<>> /\ edgesAdded = 0

NoRB == stack = <<>> /\ totalVisited = 0 /\ iterations = 0 /\ emergency = FALSE

NoML == options = <<>> /\ mazes = <<>> /\ portalList = <<>>

NoESP == edgesRemoved = 0 /\ targetRemovals = 0 /\ entries = <<>>

NoBal ==
    /\ target = <<>> /\ currentDist = <<>> /\ attempts = 0
    /\ maxDeadEndReductions = 0 /\ deadEndReductions = 0
    /\ maxThreeWayIncrease = 0 /\ threeWayIncrease = 0

(***************************************************************************)
(* generateWilsons (src/algorithms/wilsons.js).                            *)
(***************************************************************************)
getValidDirections(c) == {dir \in Dirs : InBounds(width, height, Neighbor(c, dir))}

\* index (1-based) of a cell in the path, 0 when absent (-1 in the source)
findPositionInPath(p, c) ==
    IF \E i \in 1..Len(p) : p[i] = c
    THEN CHOOSE i \in 1..Len(p) : p[i] = c /\ \A j \in 1..(i - 1) : p[j] # c
    ELSE 0

\* path.splice(loopIndex): drops the entries from loopIndex to the end
Splice(p, loopIndex) == SubSeq(p, 1, loopIndex - 1)

maxWalkSteps == width * height * 10

WilsonsInit ==
    /\ \E d \in GridDims(MaxCellsWilsons) : width = d[1] /\ height = d[2]
    /\ maze = AllWalls(NewMaze(width, height, <<0, 0>>, <<width - 1, height - 1>>))
    /\ \E c \in CellsOf(width, height) : visited = {c}
    /\ visitedCells = 1
    /\ path = <<>>
    /\ cur = <<0, 0>>
    /\ walkSteps = 0
    /\ pc = "wilsons_loop"
    /\ edges = {}
    /\ NoKruskals /\ NoRB /\ NoML /\ NoESP /\ NoBal /\ NoLocals

\* the search for the first unvisited cell and the start of its walk
WilsonsStartWalk ==
    /\ pc = "wilsons_loop"
    /\ visitedCells < width * height
    /\ CellsOf(width, height) \ visited # {}
    /\ cur' = FirstRowMajor(width, CellsOf(width, height) \ visited)
    /\ path' = <<>>
    /\ walkSteps' = 0
    /\ pc' = "wilsons_walk"
    /\ UNCHANGED <<width, height, maze, visited, visitedCells, notWilsons>>

\* one iteration of the random walk loop
WilsonsWalkStep ==
    /\ pc = "wilsons_walk"
    /\ cur \notin visited
    /\ walkSteps < maxWalkSteps
    /\ walkSteps' = walkSteps + 1
    /\ LET loopIndex == findPositionInPath(path, cur)
       IN path' = IF loopIndex >= 1 THEN Splice(path, loopIndex)
                  ELSE Append(path, cur)
    /\ \E dir \in getValidDirections(cur) : cur' = Neighbor(cur, dir)
    /\ UNCHANGED <<width, height, maze, visited, visitedCells, pc, notWilsons>>

\* walkSteps >= maxWalkSteps after the walk loop: the path is skipped
WilsonsSkipWalk ==
    /\ pc = "wilsons_walk"
    /\ ~(cur \notin visited /\ walkSteps < maxWalkSteps)
    /\ walkSteps >= maxWalkSteps
    /\ pc' = "wilsons_loop"
    /\ UNCHANGED <<width, height, maze, visited, cur, wilsonsVars, notWilsons>>

\* the cell path[i] is connected to: the next path entry, or the visited
\* cell the walk hit
CarveNext(p, i, hit) == IF i < Len(p) THEN p[i + 1] ELSE hit

\* the wall removals of the carve loop from index i on
RECURSIVE CarvePath(_, _, _, _)
CarvePath(m, p, i, hit) ==
    IF i > Len(p) THEN m
    ELSE LET next == CarveNext(p, i, hit)
             conn == {dir \in Dirs : Neighbor(p[i], dir) = next}
         IN CarvePath(IF conn # {} /\ next \in DOMAIN m.cells
                      THEN Carve(m, p[i], CHOOSE dir \in conn : TRUE)
                      ELSE m,
                      p, i + 1, hit)

\* the carve loop over the finished path
WilsonsCarve ==
    /\ pc = "wilsons_walk"
    /\ ~(cur \notin visited /\ walkSteps < maxWalkSteps)
    /\ walkSteps < maxWalkSteps
    /\ maze' = CarvePath(maze, path, 1, cur)
    /\ visited' = visited \cup {path[i] : i \in 1..Len(path)}
    /\ visitedCells' = visitedCells
                       + Cardinality({path[i] : i \in 1..Len(path)} \ visited)
    /\ pc' = "wilsons_loop"
    /\ UNCHANGED <<width, height, path, cur, walkSteps, notWilsons>>

\* the main loop ends; ensureBoundaryWalls and return
WilsonsReturn ==
    /\ pc = "wilsons_loop"
    /\ ~(visitedCells < width * height /\ CellsOf(width, height) \ visited # {})
    /\ maze' = ensureBoundaryWallsWilsons(maze)
    /\ pc' = "wilsons_returned"
    /\ UNCHANGED <<width, height, visited, cur, wilsonsVars, notWilsons>>

WilsonsNext ==
    \/ WilsonsStartWalk
    \/ WilsonsWalkStep
    \/ WilsonsSkipWalk
    \/ WilsonsCarve
    \/ WilsonsReturn

SpecWilsons == WilsonsInit /\ [][WilsonsNext]_vars

(***************************************************************************)
(* generateKruskals (src/algorithms/kruskals.js).                          *)
(***************************************************************************)
\* new UnionFind(size)
UnionFind(size) ==
    [parent |-> [i \in 0..(size - 1) |-> i],
     rank |-> [i \in 0..(size - 1) |-> 0],
     components |-> size]

\* the value find(x) returns
RECURSIVE FindRoot(_, _)
FindRoot(parent, x) == IF parent[x] = x THEN x ELSE FindRoot(parent, parent[x])

\* the elements find(x) visits before the root
RECURSIVE FindPath(_, _)
FindPath(parent, x) ==
    IF parent[x] = x THEN {} ELSE {x} \cup FindPath(parent, parent[x])

\* the UnionFind after find(x): path compression
find(u, x) ==
    LET root == FindRoot(u.parent, x)
        visit == FindPath(u.parent, x)
    IN IF visit = {} THEN u
       ELSE [u EXCEPT !.parent = [i \in DOMAIN u.parent |->
                                     IF i \in visit THEN root ELSE u.parent[i]]]

\* the direct parents compared instead of the roots
connectedParents(u, x, y) == u.parent[x] = u.parent[y]

\* the value connected(x, y) returns
connected(u, x, y) == FindRoot(u.parent, x) = FindRoot(u.parent, y)

\* the UnionFind after connected(x, y)
afterConnected(u, x, y) == find(find(u, x), y)

\* the UnionFind after union(x, y)
union(u, x, y) ==
    LET v == find(find(u, x), y)
        rootX == FindRoot(u.parent, x)
        rootY == FindRoot(u.parent, y)
    IN IF rootX = rootY THEN v
       ELSE IF v.rank[rootX] < v.rank[rootY]
            THEN [v EXCEPT !.parent[rootX] = rootY, !.components = @ - 1]
       ELSE IF v.rank[rootX] > v.rank[rootY]
            THEN [v EXCEPT !.parent[rootY] = rootX, !.components = @ - 1]
       ELSE [v EXCEPT !.parent[rootY] = rootX, !.rank[rootX] = @ + 1,
                      !.components = @ - 1]

cellToIndex(c) == c[2] * width + c[1]

KruskalsInit ==
    /\ \E d \in GridDims(MaxCellsKruskals) : width = d[1] /\ height = d[2]
    /\ maze = AllWalls(NewMaze(width, height, <<0, 0>>, <<width - 1, height - 1>>))
    /\ uf = UnionFind(width * height)
    /\ edges = AllGridEdges(width, height)
    /\ edgesAdded = 0
    /\ pc = "kruskals_loop"
    /\ visited = {} /\ cur = <<0, 0>>
    /\ NoWilsons /\ NoRB /\ NoML /\ NoESP /\ NoBal /\ NoLocals

\* one iteration of "for (const edge of edges)" over the shuffled list: the
\* Fisher-Yates shuffle makes every order possible, so the next entry is any
\* entry not yet iterated
KruskalsEdge ==
    /\ pc = "kruskals_loop"
    /\ \E edge \in edges :
        LET i1 == cellToIndex(edge[1])
            i2 == cellToIndex(Neighbor(edge[1], edge[2]))
        IN /\ edges' = edges \ {edge}
           /\ IF ~connected(uf, i1, i2)
              THEN /\ maze' = Carve(maze, edge[1], edge[2])
                   /\ uf' = union(afterConnected(uf, i1, i2), i1, i2)
                   /\ edgesAdded' = edgesAdded + 1
                   /\ pc' = IF edgesAdded + 1 >= width * height - 1
                            THEN "kruskals_end" ELSE "kruskals_loop"
              ELSE /\ uf' = afterConnected(uf, i1, i2)
                   /\ UNCHANGED <<maze, edgesAdded, pc>>
    /\ UNCHANGED <<width, height, notKruskals>>

\* the edge loop is over: the break was taken or the list is exhausted
KruskalsLoopEnded ==
    IF pc = "kruskals_loop" THEN edges = {} ELSE pc = "kruskals_end"

\* ensureBoundaryWalls, the final isValid check and return
KruskalsReturn ==
    /\ KruskalsLoopEnded
    /\ maze' = ensureBoundaryWalls(maze)
    /\ pc' = IF isValid(ensureBoundaryWalls(maze))
             THEN "kruskals_returned" ELSE "kruskals_thrown"
    /\ UNCHANGED <<width, height, edges, kruskalsVars, notKruskals>>

KruskalsNext ==
    \/ KruskalsEdge
    \/ KruskalsReturn

SpecKruskals == KruskalsInit /\ [][KruskalsNext]_vars

\* generateKruskals on the smaller grids, for the properties that compare the
\* union-find structure with the maze at every step
UnionFindInit ==
    /\ \E d \in GridDims(MaxCellsUnionFind) : width = d[1] /\ height = d[2]
    /\ maze = AllWalls(NewMaze(width, height, <<0, 0>>, <<width - 1, height - 1>>))
    /\ uf = UnionFind(width * height)
    /\ edges = AllGridEdges(width, height)
    /\ edgesAdded = 0
    /\ pc = "kruskals_loop"
    /\ visited = {} /\ cur = <<0, 0>>
    /\ NoWilsons /\ NoRB /\ NoML /\ NoESP /\ NoBal /\ NoLocals

SpecUnionFind == UnionFindInit /\ [][KruskalsNext]_vars

(***************************************************************************)
(* generateRecursiveBacktracker (src/algorithms/recursiveBacktracker.js).  *)
(***************************************************************************)
getUnvisitedNeighbors(c) ==
    {dir \in Dirs : /\ InBounds(width, height, Neighbor(c, dir))
                    /\ Neighbor(c, dir) \notin visited}

\* the cap set to the number of cells
maxIterationsCells == width * height

maxIterations == width * height * 10

RBLoopRuns == totalVisited < width * height /\ iterations < maxIterations

\* the maze with every wall present that the generator starts from
RBEntryMaze(w, h) == AllWalls(NewMaze(w, h, <<0, 0>>, <<w - 1, h - 1>>))

RBInit ==
    /\ \E d \in GridDims(MaxCellsRB) : width = d[1] /\ height = d[2]
    /\ maze = RBEntryMaze(width, height)
    /\ visited = {<<0, 0>>}
    /\ cur = <<0, 0>>
    /\ stack = <<>>
    /\ totalVisited = 1
    /\ iterations = 0
    /\ emergency = FALSE
    /\ pc = "rb_loop"
    /\ edges = {}
    /\ NoWilsons /\ NoKruskals /\ NoML /\ NoESP /\ NoBal /\ NoLocals

\* MOVE FORWARD: carve to a random unvisited neighbour and push
RBForward ==
    /\ pc = "rb_loop"
    /\ RBLoopRuns
    /\ \E dir \in getUnvisitedNeighbors(cur) :
        /\ stack' = Append(stack, cur)
        /\ maze' = Carve(maze, cur, dir)
        /\ cur' = Neighbor(cur, dir)
        /\ visited' = visited \cup {Neighbor(cur, dir)}
    /\ totalVisited' = totalVisited + 1
    /\ iterations' = iterations + 1
    /\ UNCHANGED <<width, height, pc, emergency, mlVars, notRB>>

\* BACKTRACK: pop the stack; with an empty stack, the emergency jump to the
\* first unvisited cell
RBBacktrack ==
    /\ pc = "rb_loop"
    /\ RBLoopRuns
    /\ getUnvisitedNeighbors(cur) = {}
    /\ iterations' = iterations + 1
    /\ IF Len(stack) > 0
       THEN /\ cur' = stack[Len(stack)]
            /\ stack' = SubSeq(stack, 1, Len(stack) - 1)
            /\ UNCHANGED <<visited, totalVisited, emergency, pc>>
       ELSE IF CellsOf(width, height) \ visited # {}
       THEN /\ cur' = FirstRowMajor(width, CellsOf(width, height) \ visited)
            /\ visited' = visited \cup {cur'}
            /\ totalVisited' = totalVisited + 1
            /\ emergency' = TRUE
            /\ UNCHANGED <<stack, pc>>
       ELSE /\ pc' = "rb_end"
            /\ UNCHANGED <<cur, stack, visited, totalVisited, emergency>>
    /\ UNCHANGED <<width, height, maze, mlVars, notRB>>

RBLoopEnded == IF pc = "rb_loop" THEN ~RBLoopRuns ELSE pc = "rb_end"

\* ensureBoundaryWalls, the final isValid check and return
RBReturn ==
    /\ RBLoopEnded
    /\ maze' = ensureBoundaryWalls(maze)
    /\ pc' = IF isValid(ensureBoundaryWalls(maze)) THEN "rb_returned" ELSE "rb_thrown"
    /\ UNCHANGED <<width, height, visited, cur, rbVars, mlVars, notRB>>

RBNext ==
    \/ RBForward
    \/ RBBacktrack
    \/ RBReturn

SpecRB == RBInit /\ [][RBNext]_vars

(***************************************************************************)
(* generateMultiLayer (src/algorithms/multiLayer.js).                      *)
(***************************************************************************)
DefaultLayers == 2

MinLayers == 2

MaxLayers == 5

DefaultPortals == 4

MinPortals == 1

MaxPortals == 10

Min(a, b) == IF a < b THEN a ELSE b

Max(a, b) == IF a > b THEN a ELSE b

\* v || d : a missing or zero option takes the default
OrDefault(v, d) == IF v = 0 THEN d ELSE v

layers == Min(Max(OrDefault(options.layers, DefaultLayers), MinLayers), MaxLayers)

portals == Min(Max(OrDefault(options.portals, DefaultPortals), MinPortals), MaxPortals)

\* step 2: the flat grid with all walls, then each layer's open sides copied
CopyLayers(ms, w, h) ==
    LET flat == AllWalls(NewMaze(w * Len(ms), h, <<0, 0>>, <<w * Len(ms) - 1, h - 1>>))
    IN [flat EXCEPT !.cells = [c \in DOMAIN flat.cells |->
           LET l == (c[1] \div w) + 1
               src == <<c[1] % w, c[2]>>
           IN flat.cells[c] \ {dir \in Dirs : ~hasWall(ms[l], src, dir)}]]

\* the seam positions taken at the left edge of the next layer
portalCandidatesNextLayer(n, w, h) ==
    {<<(l + 1) * w, y>> : l \in 0..(n - 2), y \in 0..(h - 1)}

\* the seam positions: <<fromX, fromY>>, the right edge of layer l
portalCandidates(n, w, h) ==
    {<<(l + 1) * w - 1, y>> : l \in 0..(n - 2), y \in 0..(h - 1)}

\* the first k entries of the shuffled candidate list: k distinct candidates
\* in any order
ShuffledPrefixes(S, k) ==
    {s \in [1..k -> S] : \A i \in 1..k : \A j \in 1..k : i # j => s[i] # s[j]}

\* the walls removed for the chosen portals
RECURSIVE PunchPortals(_, _, _)
PunchPortals(m, chosen, i) ==
    IF i > Len(chosen) THEN m
    ELSE PunchPortals(removeWall(removeWall(m, chosen[i], "E"),
                                 Neighbor(chosen[i], "E"), "W"),
                      chosen, i + 1)

\* the call generateMultiLayer(w, h, opts) up to its first layer's generation
MLEntry(w, h, opts) ==
    /\ width = w /\ height = h
    /\ options = opts
    /\ mazes = <<>>
    /\ portalList = <<>>
    /\ maze = RBEntryMaze(width, height)
    /\ visited = {<<0, 0>>}
    /\ cur = <<0, 0>>
    /\ stack = <<>>
    /\ totalVisited = 1
    /\ iterations = 0
    /\ emergency = FALSE
    /\ pc = "rb_loop"
    /\ edges = {}
    /\ NoWilsons /\ NoKruskals /\ NoESP /\ NoBal /\ NoLocals

MLInit ==
    \E d \in GridDims(MaxCellsLayer) :
        \E ol \in 0..MaxOptLayers, op \in 0..MaxOptPortals :
            MLEntry(d[1], d[2], [layers |-> ol, portals |-> op])

\* mazes.push(generateRecursiveBacktracker(width, height)) and the next call
MLNextLayer ==
    /\ pc = "rb_returned"
    /\ options # <<>>
    /\ Len(mazes) < layers
    /\ mazes' = Append(mazes, maze)
    /\ maze' = RBEntryMaze(width, height)
    /\ visited' = {<<0, 0>>}
    /\ cur' = <<0, 0>>
    /\ stack' = <<>>
    /\ totalVisited' = 1
    /\ iterations' = 0
    /\ pc' = IF Len(mazes) + 1 < layers THEN "rb_loop" ELSE "ml_combine"
    /\ UNCHANGED <<width, height, emergency, options, portalList, notML>>

\* steps 2 and 3: combine the layers, punch the portals, open entrance and exit
MLCombine ==
    /\ pc = "ml_combine"
    /\ LET flat == CopyLayers(mazes, width, height)
           cands == portalCandidates(layers, width, height)
           actualPortals == Min(portals, Cardinality(cands))
       IN \E chosen \in ShuffledPrefixes(cands, actualPortals) :
           /\ maze' = removeWall(removeWall(PunchPortals(flat, chosen, 1),
                                           flat.start, "W"), flat.finish, "E")
           /\ portalList' = [i \in 1..actualPortals |->
                                [from |-> chosen[i], to |-> Neighbor(chosen[i], "E")]]
    /\ pc' = "ml_returned"
    /\ UNCHANGED <<width, height, visited, cur, rbVars, options, mazes, notML>>

MLNext ==
    \/ RBForward
    \/ RBBacktrack
    \/ RBReturn
    \/ MLNextLayer
    \/ MLCombine

SpecMultiLayer == MLInit /\ [][MLNext]_vars

(***************************************************************************)
(* generateMultiLayer, the version that enforces wall symmetry at the      *)
(* seams and closes the outer boundary before it returns.                  *)
(***************************************************************************)
\* a seam is left as copied: nothing is opened
SeamOpenNever(m, c) == FALSE

\* !leftHasEastWall || !rightHasWestWall for the seam whose left cell is c
SeamOpen(m, c) == ~hasWall(m, c, "E") \/ ~hasWall(m, Neighbor(c, "E"), "W")

\* step 4: at every seam position, both walls removed when either is absent
enforceSeamSymmetry(m, n, w, h) ==
    LET open == {c \in portalCandidates(n, w, h) : SeamOpen(m, c)}
    IN [m EXCEPT !.cells = [c \in DOMAIN m.cells |->
           (m.cells[c] \ (IF c \in open THEN {"E"} ELSE {}))
                       \ (IF Neighbor(c, "W") \in open THEN {"W"} ELSE {})]]

\* ensureMultiLayerBoundaryWalls: outer walls added, W and N opened at a
\* start on the left or top edge, E and S at a finish on the right or bottom
ensureMultiLayerBoundaryWalls(m) == ensureBoundaryWallsWilsons(m)

\* steps 2 to 6: combine, seams, portals, boundary, isValid, return
MLCombineSeams ==
    /\ pc = "ml_combine"
    /\ LET flat == enforceSeamSymmetry(CopyLayers(mazes, width, height),
                                       layers, width, height)
           cands == portalCandidates(layers, width, height)
           actualPortals == Min(portals, Cardinality(cands))
       IN \E chosen \in ShuffledPrefixes(cands, actualPortals) :
           LET done == ensureMultiLayerBoundaryWalls(PunchPortals(flat, chosen, 1))
           IN /\ maze' = done
              /\ portalList' = [i \in 1..actualPortals |->
                                   [from |-> chosen[i], to |-> Neighbor(chosen[i], "E")]]
              /\ pc' = IF isValid(done) THEN "mls_returned" ELSE "mls_thrown"
    /\ UNCHANGED <<width, height, visited, cur, rbVars, options, mazes, notML>>

MLSeamsNext ==
    \/ RBForward
    \/ RBBacktrack
    \/ RBReturn
    \/ MLNextLayer
    \/ MLCombineSeams

SpecMultiLayerSeams == MLInit /\ [][MLSeamsNext]_vars

\* either version of generateMultiLayer
MLVersionsNext ==
    \/ RBForward
    \/ RBBacktrack
    \/ RBReturn
    \/ MLNextLayer
    \/ MLCombine
    \/ MLCombineSeams

SpecMultiLayerVersions == MLInit /\ [][MLVersionsNext]_vars

(***************************************************************************)
(* ensureSinglePath (src/utils/mazeUtils.js).                              *)
(***************************************************************************)
calls == Len(entries)

\* the maze with the edge's walls added on both sides
CloseEdge(m, edge) ==
    addWall(addWall(m, edge[1], edge[2]), Neighbor(edge[1], edge[2]), opposite(edge[2]))

\* the maze with the edge's walls removed on both sides
OpenEdge(m, edge) ==
    removeWall(removeWall(m, edge[1], edge[2]), Neighbor(edge[1], edge[2]),
               opposite(edge[2]))

\* connectivity tested without the edge's walls added first
wouldDisconnectUnclosed(m, edge) == ~isConnected(m)

\* the value wouldDisconnect(edge) returns
wouldDisconnect(m, edge) == ~isConnected(CloseEdge(m, edge))

\* the maze wouldDisconnect(edge) leaves: walls added, then removed again
afterWouldDisconnect(m, edge) == OpenEdge(CloseEdge(m, edge), edge)

ESPInit ==
    /\ \E d \in GridDims(MaxCellsInput) : width = d[1] /\ height = d[2]
    /\ \E sym \in SUBSET AllGridEdges(width, height) :
         \E half \in HalfOpenSets(width, height, sym) :
           \E openBoundary \in BOOLEAN :
             maze = InputMaze(width, height, sym, half, openBoundary)
    /\ pc = "esp_call"
    /\ edges = {}
    /\ edgesRemoved = 0
    /\ targetRemovals = 0
    /\ entries = <<>>
    /\ visited = {} /\ cur = <<0, 0>>
    /\ NoWilsons /\ NoKruskals /\ NoRB /\ NoML /\ NoBal /\ NoLocals

\* the call up to the shuffle: validity check, getAllEdges, early return
ESPCall ==
    /\ pc = "esp_call"
    /\ entries' = Append(entries, maze)
    /\ edgesRemoved' = 0
    /\ IF ~isValid(maze)
       THEN /\ pc' = "esp_thrown"
            /\ UNCHANGED <<edges, targetRemovals>>
       ELSE LET totalEdges == Cardinality(getAllEdges(maze))
                targetEdges == maze.width * maze.height - 1
            IN IF totalEdges <= targetEdges
               THEN /\ pc' = "esp_returned"
                    /\ UNCHANGED <<edges, targetRemovals>>
               ELSE /\ pc' = "esp_loop"
                    /\ edges' = getAllEdges(maze)
                    /\ targetRemovals' = totalEdges - targetEdges
    /\ UNCHANGED <<maze, notESP>>

\* one iteration of "for (const edge of edges)" over the shuffled list (the
\* next entry is any entry not yet iterated)
ESPEdge ==
    /\ pc = "esp_loop"
    /\ edgesRemoved < targetRemovals
    /\ \E edge \in edges :
        /\ edges' = edges \ {edge}
        /\ IF ~wouldDisconnect(maze, edge)
           THEN /\ maze' = CloseEdge(afterWouldDisconnect(maze, edge), edge)
                /\ edgesRemoved' = edgesRemoved + 1
           ELSE /\ maze' = afterWouldDisconnect(maze, edge)
                /\ UNCHANGED edgesRemoved
    /\ UNCHANGED <<pc, targetRemovals, entries, notESP>>

\* the loop left one removal short of the target
ESPLoopEndedOneShort ==
    IF edgesRemoved >= targetRemovals - 1 THEN TRUE ELSE edges = {}

\* the break of line 137, or the list exhausted
ESPLoopEnded == IF edgesRemoved >= targetRemovals THEN TRUE ELSE edges = {}

\* the loop ends; the final connectivity check only logs
ESPReturn ==
    /\ pc = "esp_loop"
    /\ ESPLoopEnded
    /\ pc' = "esp_returned"
    /\ edges' = {}
    /\ UNCHANGED <<maze, espVars, notESP>>

\* the caller applies ensureSinglePath to the same maze once more
ESPCallAgain ==
    /\ pc = "esp_returned"
    /\ calls < MaxCalls
    /\ pc' = "esp_call"
    /\ UNCHANGED <<maze, edges, espVars, notESP>>

ESPNext ==
    \/ ESPCall
    \/ ESPEdge
    \/ ESPReturn
    \/ ESPCallAgain

SpecSinglePath == ESPInit /\ [][ESPNext]_vars

(***************************************************************************)
(* generateEller (src/algorithms/ellers.js).                               *)
(***************************************************************************)
\* the row after step 1: every cell with set id 0 gets the next fresh id,
\* left to right; <<row, nextSetId>>
RECURSIVE AssignSets(_, _, _)
AssignSets(row, next, x) ==
    IF x \notin DOMAIN row THEN <<row, next>>
    ELSE IF row[x] = 0 THEN AssignSets([row EXCEPT ![x] = next], next + 1, x + 1)
    ELSE AssignSets(row, next, x + 1)

\* only the east cell is moved to the set it is merged into
mergeSetsEastCellOnly(rowSets, fromSet, toSet, x) == [rowSets EXCEPT ![x + 1] = toSet]

\* mergeSets(rowSets, fromSet, toSet) as called for the cells x and x + 1
mergeSets(rowSets, fromSet, toSet, x) ==
    [i \in DOMAIN rowSets |-> IF rowSets[i] = fromSet THEN toSet ELSE rowSets[i]]

getCellsInSet(rowSets, setId) == {i \in DOMAIN rowSets : rowSets[i] = setId}

\* the uniqueSets that have no entry in verticalConnections
SetsWithoutVertical(rowSets, verticalConnections) ==
    {rowSets[i] : i \in DOMAIN rowSets} \ verticalConnections

\* step 4: a cell without a south wall hands its set id down
nextRowSets(m, rowSets, rowIndex) ==
    [i \in DOMAIN rowSets |->
        IF ~hasWall(m, <<i, rowIndex>>, "S") THEN rowSets[i] ELSE 0]

\* the maze after carving down from each of the columns xs of a row
RECURSIVE CarveDownAll(_, _, _)
CarveDownAll(m, xs, rowIndex) ==
    IF xs = {} THEN m
    ELSE LET i == CHOOSE i \in xs : TRUE
         IN CarveDownAll(Carve(m, <<i, rowIndex>>, "S"), xs \ {i}, rowIndex)

EllerInit ==
    /\ \E d \in GridDims(MaxCellsEller) : width = d[1] /\ height = d[2]
    /\ maze = AllWalls(NewMaze(width, height, <<0, 0>>, <<width - 1, height - 1>>))
    /\ loc = [currentRowSets |-> [i \in 0..(width - 1) |-> 0],
              nextSetId |-> 1,
              rowIndex |-> 0,
              x |-> 0,
              verticalConnections |-> {}]
    /\ pc = "eller_assign"
    /\ visited = {} /\ cur = <<0, 0>>
    /\ edges = {}
    /\ NoWilsons /\ NoKruskals /\ NoRB /\ NoML /\ NoESP /\ NoBal

\* step 1 of a row: assign sets
EllerAssign ==
    /\ pc = "eller_assign"
    /\ LET a == AssignSets(loc.currentRowSets, loc.nextSetId, 0)
       IN loc' = [loc EXCEPT !.currentRowSets = a[1], !.nextSetId = a[2], !.x = 0]
    /\ pc' = "eller_east"
    /\ UNCHANGED <<width, height, maze, visited, cur, notGen>>

\* step 2, one iteration of the east loop
EllerEast ==
    /\ pc = "eller_east"
    /\ \E coin \in BOOLEAN :
        LET shouldMerge == coin \/ loc.rowIndex = height - 1
            sets == loc.currentRowSets
            x == loc.x
        IN IF sets[x] # sets[x + 1] /\ shouldMerge
           THEN /\ maze' = Carve(maze, <<x, loc.rowIndex>>, "E")
                /\ loc' = [loc EXCEPT
                             !.currentRowSets = mergeSets(sets, sets[x + 1], sets[x], x),
                             !.x = IF x + 1 < width - 1 THEN x + 1 ELSE 0,
                             !.verticalConnections = {}]
           ELSE /\ maze' = maze
                /\ loc' = [loc EXCEPT !.x = IF x + 1 < width - 1 THEN x + 1 ELSE 0,
                                      !.verticalConnections = {}]
    /\ pc' = IF loc.x + 1 < width - 1 THEN "eller_east"
             ELSE IF loc.rowIndex = height - 1 THEN "eller_end" ELSE "eller_down"
    /\ UNCHANGED <<width, height, visited, cur, notGen>>

\* step 3, first pass: one iteration of the carve-down loop
EllerDown ==
    /\ pc = "eller_down"
    /\ \E shouldCarveDown \in BOOLEAN :
        IF shouldCarveDown
        THEN /\ maze' = Carve(maze, <<loc.x, loc.rowIndex>>, "S")
             /\ loc' = [loc EXCEPT
                          !.verticalConnections = @ \cup {loc.currentRowSets[loc.x]},
                          !.x = IF loc.x + 1 < width THEN loc.x + 1 ELSE 0]
        ELSE /\ maze' = maze
             /\ loc' = [loc EXCEPT !.x = IF loc.x + 1 < width THEN loc.x + 1 ELSE 0]
    /\ pc' = IF loc.x + 1 < width THEN "eller_down" ELSE "eller_force"
    /\ UNCHANGED <<width, height, visited, cur, notGen>>

\* step 3, the forced connections (one random cell of every set without a
\* vertical connection), and step 4, the sets of the next row
EllerForce ==
    /\ pc = "eller_force"
    /\ LET missing == SetsWithoutVertical(loc.currentRowSets, loc.verticalConnections)
       IN \E pick \in [missing -> DOMAIN loc.currentRowSets] :
            /\ \A s \in missing : pick[s] \in getCellsInSet(loc.currentRowSets, s)
            /\ LET m == CarveDownAll(maze, {pick[s] : s \in missing}, loc.rowIndex)
               IN /\ maze' = m
                  /\ loc' = [loc EXCEPT
                               !.currentRowSets = nextRowSets(m, loc.currentRowSets,
                                                              loc.rowIndex),
                               !.rowIndex = @ + 1,
                               !.x = 0,
                               !.verticalConnections = {}]
    /\ pc' = "eller_assign"
    /\ UNCHANGED <<width, height, visited, cur, notGen>>

\* ensureBoundaryWalls, the final isValid check and return
EllerReturn ==
    /\ pc = "eller_end"
    /\ maze' = ensureBoundaryWalls(maze)
    /\ pc' = IF isValid(ensureBoundaryWalls(maze)) THEN "eller_returned" ELSE "eller_thrown"
    /\ UNCHANGED <<width, height, visited, cur, loc, notGen>>

EllerNext ==
    \/ EllerAssign
    \/ EllerEast
    \/ EllerDown
    \/ EllerForce
    \/ EllerReturn

SpecEller == EllerInit /\ [][EllerNext]_vars

(***************************************************************************)
(* generatePrims (src/algorithms/prims.js, the version with the frontier   *)
(* Set).  A frontier wall is the side <<cell, direction>> its key names.   *)
(***************************************************************************)
\* the frontier Set after addFrontierWalls(x, y)
addFrontierWalls(frontierWalls, vis, c) ==
    frontierWalls \cup
        {<<c, dir>> : dir \in {d \in Dirs : /\ InBounds(width, height, Neighbor(c, d))
                                            /\ Neighbor(c, d) \notin vis}}

\* the safety limit set to the number of cells
PrimsLoopRunsCapCells ==
    /\ loc.frontierWalls # {}
    /\ loc.totalVisited < width * height
    /\ loc.iterationCount < width * height

\* the while condition, maxIterations = totalCells * 2
PrimsLoopRuns ==
    /\ loc.frontierWalls # {}
    /\ loc.totalVisited < width * height
    /\ loc.iterationCount < width * height * 2

PrimsInit ==
    /\ \E d \in GridDims(MaxCellsPrims) : width = d[1] /\ height = d[2]
    /\ maze = AllWalls(NewMaze(width, height, <<0, 0>>, <<width - 1, height - 1>>))
    /\ visited = {<<0, 0>>}
    /\ loc = [frontierWalls |-> addFrontierWalls({}, {<<0, 0>>}, <<0, 0>>),
              totalVisited |-> 1,
              iterationCount |-> 0,
              emergency |-> FALSE]
    /\ pc = "prims_loop"
    /\ cur = <<0, 0>>
    /\ edges = {}
    /\ NoWilsons /\ NoKruskals /\ NoRB /\ NoML /\ NoESP /\ NoBal

\* one iteration of the main loop: a random frontier wall is taken out of the
\* Set; it is skipped when its target is visited, carved otherwise
PrimsPick ==
    /\ pc = "prims_loop"
    /\ PrimsLoopRuns
    /\ \E fw \in loc.frontierWalls :
        LET to == Neighbor(fw[1], fw[2])
        IN IF to \in visited
           THEN /\ loc' = [loc EXCEPT !.frontierWalls = @ \ {fw},
                                      !.iterationCount = @ + 1]
                /\ UNCHANGED <<maze, visited>>
           ELSE /\ maze' = Carve(maze, fw[1], fw[2])
                /\ visited' = visited \cup {to}
                /\ loc' = [loc EXCEPT
                             !.frontierWalls =
                                 addFrontierWalls(loc.frontierWalls \ {fw},
                                                  visited \cup {to}, to),
                             !.iterationCount = @ + 1,
                             !.totalVisited = @ + 1]
    /\ UNCHANGED <<width, height, pc, cur, notGen>>

\* after the loop: the emergency marking of the cells left unvisited,
\* ensureBoundaryWalls, the final isValid check and return
PrimsReturn ==
    /\ pc = "prims_loop"
    /\ ~PrimsLoopRuns
    /\ IF loc.totalVisited < width * height
       THEN /\ visited' = CellsOf(width, height)
            /\ loc' = [loc EXCEPT !.totalVisited = width * height, !.emergency = TRUE]
       ELSE UNCHANGED <<visited, loc>>
    /\ maze' = ensureBoundaryWalls(maze)
    /\ pc' = IF isValid(ensureBoundaryWalls(maze)) THEN "prims_returned" ELSE "prims_thrown"
    /\ UNCHANGED <<width, height, cur, notGen>>

PrimsNext ==
    \/ PrimsPick
    \/ PrimsReturn

SpecPrims == PrimsInit /\ [][PrimsNext]_vars

(***************************************************************************)
(* generateHuntAndKill (src/algorithms/huntAndKill.js).  Its               *)
(* getUnvisitedNeighbors is the one of the recursive backtracker.          *)
(***************************************************************************)
\* the visited test negated, as in getUnvisitedNeighbors
getVisitedNeighborsNegated(c) ==
    {dir \in Dirs : /\ InBounds(width, height, Neighbor(c, dir))
                    /\ Neighbor(c, dir) \notin visited}

getVisitedNeighbors(c) ==
    {dir \in Dirs : /\ InBounds(width, height, Neighbor(c, dir))
                    /\ Neighbor(c, dir) \in visited}

\* the kill phase goes on: below maxKillSteps and not at a dead end
HKKillRuns == loc.killSteps < width * height /\ getUnvisitedNeighbors(cur) # {}

\* the unvisited cells the hunt scan can stop at
HuntCandidates == {c \in CellsOf(width, height) \ visited : getVisitedNeighbors(c) # {}}

HKInit ==
    /\ \E d \in GridDims(MaxCellsHK) : width = d[1] /\ height = d[2]
    /\ maze = AllWalls(NewMaze(width, height, <<0, 0>>, <<width - 1, height - 1>>))
    /\ visited = {<<0, 0>>}
    /\ cur = <<0, 0>>
    /\ loc = [totalVisited |-> 1, killSteps |-> 0, emergency |-> FALSE]
    /\ pc = "hk_kill"
    /\ edges = {}
    /\ NoWilsons /\ NoKruskals /\ NoRB /\ NoML /\ NoESP /\ NoBal

\* one step of the kill phase: carve to a random unvisited neighbour
HKKillStep ==
    /\ pc = "hk_kill"
    /\ HKKillRuns
    /\ \E dir \in getUnvisitedNeighbors(cur) :
        /\ maze' = Carve(maze, cur, dir)
        /\ cur' = Neighbor(cur, dir)
        /\ visited' = visited \cup {Neighbor(cur, dir)}
    /\ loc' = [loc EXCEPT !.killSteps = @ + 1, !.totalVisited = @ + 1]
    /\ UNCHANGED <<width, height, pc, notGen>>

\* the kill phase is over; the hunt scan, the emergency branch when it finds
\* nothing while a cell is unvisited, and the test of the outer loop
HKHunt ==
    /\ pc = "hk_kill"
    /\ ~HKKillRuns
    /\ IF HuntCandidates # {}
       THEN LET c == FirstRowMajor(width, HuntCandidates)
            IN /\ \E dir \in getVisitedNeighbors(c) : maze' = Carve(maze, c, dir)
               /\ cur' = c
               /\ visited' = visited \cup {c}
               /\ loc' = [loc EXCEPT !.totalVisited = @ + 1, !.killSteps = 0]
               /\ pc' = IF loc.totalVisited + 1 < width * height
                        THEN "hk_kill" ELSE "hk_end"
       ELSE IF loc.totalVisited < width * height
       THEN LET c == FirstRowMajor(width, CellsOf(width, height) \ visited)
            IN /\ cur' = c
               /\ visited' = visited \cup {c}
               /\ loc' = [loc EXCEPT !.totalVisited = @ + 1, !.killSteps = 0,
                                     !.emergency = TRUE]
               /\ pc' = IF loc.totalVisited + 1 < width * height
                        THEN "hk_kill" ELSE "hk_end"
               /\ UNCHANGED maze
       ELSE /\ pc' = "hk_end"
            /\ UNCHANGED <<maze, cur, visited, loc>>
    /\ UNCHANGED <<width, height, notGen>>

\* ensureBoundaryWalls, the final isValid check and return
HKReturn ==
    /\ pc = "hk_end"
    /\ maze' = ensureBoundaryWalls(maze)
    /\ pc' = IF isValid(ensureBoundaryWalls(maze)) THEN "hk_returned" ELSE "hk_thrown"
    /\ UNCHANGED <<width, height, visited, cur, loc, notGen>>

HKNext ==
    \/ HKKillStep
    \/ HKHunt
    \/ HKReturn

SpecHuntAndKill == HKInit /\ [][HKNext]_vars

(***************************************************************************)
(* generateAldousBroder (src/algorithms/aldousBroder.js).  Its             *)
(* getValidDirections is the one of Wilson's algorithm.                    *)
(***************************************************************************)
\* the walk carves on every move
ABCarvesAlways(vis, c) == TRUE

\* the walk carves into a cell: if (!visited[ny][nx])
ABCarves(vis, c) == c \notin vis

\* maxWalkSteps = totalCells * totalCells
ABMaxWalkSteps == (width * height) * (width * height)

ABLoopRuns == loc.totalVisited < width * height /\ loc.walkSteps < ABMaxWalkSteps

ABInit ==
    /\ \E d \in GridDims(MaxCellsAB) : width = d[1] /\ height = d[2]
    /\ maze = AllWalls(NewMaze(width, height, <<0, 0>>, <<width - 1, height - 1>>))
    /\ cur \in CellsOf(width, height)
    /\ visited = {cur}
    /\ loc = [totalVisited |-> 1, walkSteps |-> 0]
    /\ pc = "ab_walk"
    /\ edges = {}
    /\ NoWilsons /\ NoKruskals /\ NoRB /\ NoML /\ NoESP /\ NoBal

\* one step of the random walk; no valid move throws
ABStep ==
    /\ pc = "ab_walk"
    /\ ABLoopRuns
    /\ IF getValidDirections(cur) = {}
       THEN /\ pc' = "ab_thrown"
            /\ loc' = [loc EXCEPT !.walkSteps = @ + 1]
            /\ UNCHANGED <<maze, cur, visited>>
       ELSE \E dir \in getValidDirections(cur) :
            LET n == Neighbor(cur, dir)
            IN /\ IF ABCarves(visited, n)
                  THEN /\ maze' = Carve(maze, cur, dir)
                       /\ visited' = visited \cup {n}
                       /\ loc' = [loc EXCEPT !.walkSteps = @ + 1,
                                             !.totalVisited = @ + 1]
                  ELSE /\ loc' = [loc EXCEPT !.walkSteps = @ + 1]
                       /\ UNCHANGED <<maze, visited>>
               /\ cur' = n
               /\ pc' = pc
    /\ UNCHANGED <<width, height, notGen>>

\* the loop is over: safety checks, ensureBoundaryWalls, isValid, return
ABEnd ==
    /\ pc = "ab_walk"
    /\ ~ABLoopRuns
    /\ IF loc.walkSteps >= ABMaxWalkSteps \/ loc.totalVisited < width * height
       THEN pc' = "ab_thrown" /\ UNCHANGED maze
       ELSE /\ maze' = ensureBoundaryWalls(maze)
            /\ pc' = IF isValid(ensureBoundaryWalls(maze))
                     THEN "ab_returned" ELSE "ab_thrown"
    /\ UNCHANGED <<width, height, visited, cur, loc, notGen>>

ABNext ==
    \/ ABStep
    \/ ABEnd

SpecAldousBroder == ABInit /\ [][ABNext]_vars

(***************************************************************************)
(* generateSidewinder (src/algorithms/sidewinder.js): the version with the *)
(* SidewinderRun class and the earlier version, which differ in how the    *)
(* run is kept and in what is done at return.                              *)
(***************************************************************************)
\* any column of the row
getRandomCellOfRow(run) == 0..(width - 1)

\* SidewinderRun.getRandomCell: the cells it can return
getRandomCell(run) == {run[i] : i \in 1..Len(run)}

\* SidewinderRun.isEmpty negated and SidewinderRun.validate
validate(run) ==
    /\ Len(run) > 0
    /\ run[1] >= 0 /\ run[Len(run)] < width
    /\ run[1] <= run[Len(run)]
    /\ \A i \in 1..(Len(run) - 1) : run[i + 1] = run[i] + 1

\* the maze after the earlier version's opening of entrance and exit
SWOpenEntrances(m) ==
    [m EXCEPT !.cells[m.start] = @ \ {"W"}, !.cells[m.finish] = @ \ {"E"}]

SWInit ==
    /\ \E d \in GridDims(MaxCellsSW) : width = d[1] /\ height = d[2]
    /\ maze = AllWalls(NewMaze(width, height, <<0, 0>>, <<width - 1, height - 1>>))
    /\ \E v \in {"fixed", "working"} :
         loc = [version |-> v, y |-> 0, x |-> 0, currentRun |-> <<>>]
    /\ pc = "sw_cell"
    /\ visited = {} /\ cur = <<0, 0>>
    /\ edges = {}
    /\ NoWilsons /\ NoKruskals /\ NoRB /\ NoML /\ NoESP /\ NoBal

\* one iteration of the inner loop: the cell (x, y)
SWCell ==
    /\ pc = "sw_cell"
    /\ LET x == loc.x
           y == loc.y
           run == Append(loc.currentRun, x)
           nx == IF x = width - 1 THEN 0 ELSE x + 1
           ny == IF x = width - 1 THEN y + 1 ELSE y
       IN \E coin \in BOOLEAN :
          LET shouldEndRun == x = width - 1 \/ (y # 0 /\ ~coin)
              shouldCarveEast == x # width - 1 /\ (y = 0 \/ coin)
          IN /\ (x = width - 1 \/ y = 0) => coin
             /\ IF shouldCarveEast
                THEN /\ maze' = Carve(maze, <<x, y>>, "E")
                     /\ loc' = [loc EXCEPT !.x = nx, !.y = ny, !.currentRun = run]
                ELSE /\ shouldEndRun
                     /\ IF y > 0 /\ (loc.version = "working" \/ validate(run))
                        THEN \E randomX \in getRandomCell(run) :
                                maze' = Carve(maze, <<randomX, y>>, "N")
                        ELSE maze' = maze
                     /\ loc' = [loc EXCEPT !.x = nx, !.y = ny, !.currentRun = <<>>]
             /\ pc' = IF ny = height THEN "sw_end" ELSE "sw_cell"
    /\ UNCHANGED <<width, height, visited, cur, notGen>>

\* ensureBoundaryWalls and isValid, or the earlier version's opening of the
\* entrance and exit; return
SWReturn ==
    /\ pc = "sw_end"
    /\ IF loc.version = "fixed"
       THEN /\ maze' = ensureBoundaryWalls(maze)
            /\ pc' = IF isValid(ensureBoundaryWalls(maze))
                     THEN "sw_returned" ELSE "sw_thrown"
       ELSE /\ maze' = SWOpenEntrances(maze)
            /\ pc' = "sw_returned"
    /\ UNCHANGED <<width, height, visited, cur, loc, notGen>>

SWNext ==
    \/ SWCell
    \/ SWReturn

SpecSidewinder == SWInit /\ [][SWNext]_vars

(***************************************************************************)
(* generateBraided (src/algorithms/braided.js).  The base algorithm is the *)
(* default, generateRecursiveBacktracker, whose actions run first, or a    *)
(* baseAlgorithm option whose maze fails isValid.  braidness is kept in    *)
(* halves: 0, 1 and 2 stand for 0, 0.5 and 1.                              *)
(***************************************************************************)
Braidness == {0, 1, 2}

\* the dimensions the post-processors accept: width, height >= 3
PostDims(n) == {d \in GridDims(n) : d[1] >= 3 /\ d[2] >= 3}

\* the base algorithm has returned its maze to the post-processor
BaseReturned == pc \in {"rb_returned", "base_returned"}

\* the base maze is rejected whatever it is
BaseRejectedNever(m) == FALSE

\* if (!maze || !maze.isValid()) throw
BaseRejected(m) == ~isValid(m)

countOpenings(m, c) == Cardinality(Dirs \ m.cells[c])

\* Math.ceil(initialDeadEnds * braidness)
BraidTargetRoundedUp(n, b) == (n * b + 1) \div 2

\* Math.floor(initialDeadEnds * braidness), at least 1
BraidTargetAtLeastOne(n, b) == IF (n * b) \div 2 < 1 THEN 1 ELSE (n * b) \div 2

\* Math.floor(initialDeadEnds * braidness)
BraidTarget(n, b) == (n * b) \div 2

\* the loop stops one removal short of the target
BraidLoopRunsOneShort(todo, actual, targetN) == todo # {} /\ actual + 1 < targetN

\* the loop over deadEndsList goes on: entries left and no break
BraidLoopRuns(todo, actual, targetN) == todo # {} /\ actual < targetN

\* the walls of the cell that have an in-bounds neighbour with the matching wall
BraidCandidates(m, c) ==
    {dir \in m.cells[c] :
        /\ InBounds(m.width, m.height, Neighbor(c, dir))
        /\ hasWall(m, Neighbor(c, dir), opposite(dir))}

\* the candidates whose priority equals that of the first after the sort
BraidTopCandidates(m, c) ==
    {dir \in BraidCandidates(m, c) :
        \A d2 \in BraidCandidates(m, c) :
            countOpenings(m, Neighbor(c, dir)) <= countOpenings(m, Neighbor(c, d2))}

BraidedLocals(b) ==
    [fn |-> "braided", braidness |-> b, deadEndsList |-> {}, todo |-> {},
     targetRemovals |-> 0, actualRemovals |-> 0, processedDeadEnds |-> 0]

\* the call of the base algorithm by a post-processor whose locals are l
BaseCall(n, l) ==
    /\ \E d \in PostDims(n) : width = d[1] /\ height = d[2]
    /\ loc = l
    /\ \/ /\ maze = RBEntryMaze(width, height)
          /\ visited = {<<0, 0>>}
          /\ totalVisited = 1
          /\ pc = "rb_loop"
       \/ /\ maze = AllWalls(NewMaze(width, height, <<0, 0>>, <<width - 1, height - 1>>))
          /\ visited = {}
          /\ totalVisited = 0
          /\ pc = "base_returned"
    /\ cur = <<0, 0>>
    /\ stack = <<>>
    /\ iterations = 0
    /\ emergency = FALSE
    /\ edges = {}
    /\ NoWilsons /\ NoKruskals /\ NoML /\ NoESP /\ NoBal

BraidedInit == \E b \in Braidness : BaseCall(MaxCellsPost, BraidedLocals(b))

\* the check of the base maze, the first pass over the cells, the early
\* return without dead ends, and the target
BraidStart ==
    /\ BaseReturned
    /\ loc.fn = "braided"
    /\ LET deadEnds == {c \in CellsOf(width, height) : countOpenings(maze, c) = 1}
       IN IF BaseRejected(maze)
          THEN pc' = "br_thrown" /\ UNCHANGED <<maze, loc>>
          ELSE IF deadEnds = {}
          THEN /\ maze' = ensureBoundaryWalls(maze)
               /\ pc' = "br_returned"
               /\ UNCHANGED loc
          ELSE /\ loc' = [loc EXCEPT !.deadEndsList = deadEnds,
                                     !.todo = deadEnds,
                                     !.targetRemovals =
                                         BraidTarget(Cardinality(deadEnds), loc.braidness)]
               /\ pc' = "br_loop"
               /\ UNCHANGED maze
    /\ UNCHANGED <<width, height, visited, cur, notGen>>

\* one iteration of the loop over the shuffled deadEndsList
BraidStep ==
    /\ pc = "br_loop"
    /\ BraidLoopRuns(loc.todo, loc.actualRemovals, loc.targetRemovals)
    /\ \E c \in loc.todo :
         IF countOpenings(maze, c) # 1 \/ BraidCandidates(maze, c) = {}
         THEN /\ loc' = [loc EXCEPT !.todo = @ \ {c}, !.processedDeadEnds = @ + 1]
              /\ UNCHANGED maze
         ELSE /\ \E dir \in BraidTopCandidates(maze, c) : maze' = Carve(maze, c, dir)
              /\ loc' = [loc EXCEPT !.todo = @ \ {c}, !.processedDeadEnds = @ + 1,
                                    !.actualRemovals = @ + 1]
    /\ UNCHANGED <<width, height, pc, visited, cur, notGen>>

\* the loop is over: ensureBoundaryWalls, isValid, return
BraidEnd ==
    /\ pc = "br_loop"
    /\ ~BraidLoopRuns(loc.todo, loc.actualRemovals, loc.targetRemovals)
    /\ maze' = ensureBoundaryWalls(maze)
    /\ pc' = IF isValid(ensureBoundaryWalls(maze)) THEN "br_returned" ELSE "br_thrown"
    /\ UNCHANGED <<width, height, visited, cur, loc, notGen>>

BraidedNext ==
    \/ RBForward
    \/ RBBacktrack
    \/ RBReturn
    \/ BraidStart
    \/ BraidStep
    \/ BraidEnd

SpecBraided == BraidedInit /\ [][BraidedNext]_vars

\* generateBraided with a base algorithm passed in options.baseAlgorithm: the
\* base maze is any grid with at least width*height - 1 passages (fewer
\* cannot connect it), kept in entries for reference
BraidedAnyBaseInit ==
    /\ \E d \in PostDims(MaxCellsBraidBase) : width = d[1] /\ height = d[2]
    /\ \E sym \in {es \in SUBSET AllGridEdges(width, height) :
                      Cardinality(es) >= width * height - 1} :
         \E half \in HalfOpenSets(width, height, sym) :
           \E openBoundary \in BOOLEAN :
             maze = InputMaze(width, height, sym, half, openBoundary)
    /\ \E b \in Braidness : loc = BraidedLocals(b)
    /\ entries = <<maze>>
    /\ edgesRemoved = 0 /\ targetRemovals = 0
    /\ pc = "base_returned"
    /\ visited = {} /\ cur = <<0, 0>>
    /\ stack = <<>> /\ totalVisited = 0 /\ iterations = 0 /\ emergency = FALSE
    /\ edges = {}
    /\ NoWilsons /\ NoKruskals /\ NoML /\ NoBal

BraidedAnyBaseNext ==
    \/ BraidStart
    \/ BraidStep
    \/ BraidEnd

SpecBraidedAnyBase == BraidedAnyBaseInit /\ [][BraidedAnyBaseNext]_vars

(***************************************************************************)
(* generateSparseLoop (src/algorithms/sparseLoop.js, the version with the  *)
(* connectivity check).  A fraction is kept as <<numerator, denominator>>. *)
(***************************************************************************)
\* the least number of scored candidates kept for the shuffle
MinTopCandidates == 20

Fractions == {<<0, 1>>, <<1, 2>>, <<1, 1>>}

\* the options a caller passes: the fraction under either name
SLOptions ==
    {[loopiness |-> f] : f \in Fractions} \cup {[loopFraction |-> f] : f \in Fractions}

\* typeof options.loopiness === 'number' ? options.loopiness : 0.1
loopiness(opts) == IF "loopiness" \in DOMAIN opts THEN opts.loopiness ELSE <<1, 10>>

\* findLoopCandidates: the sides <<cell, dir>> pushed to candidates
findLoopCandidates(m) ==
    {sd \in (DOMAIN m.cells) \X Dirs :
        /\ ~(sd[2] = "E" /\ sd[1][1] = m.width - 1)
        /\ ~(sd[2] = "S" /\ sd[1][2] = m.height - 1)
        /\ hasWall(m, sd[1], sd[2])
        /\ InBounds(m.width, m.height, Neighbor(sd[1], sd[2]))
        /\ hasWall(m, Neighbor(sd[1], sd[2]), opposite(sd[2]))}

\* Math.floor(maxPossibleLoops * loopiness)
targetLoopsFloor(n, f) == (n * f[1]) \div f[2]

\* Math.max(1, Math.floor(maxPossibleLoops * loopiness))
targetLoops(n, f) == Max(1, (n * f[1]) \div f[2])

\* scoredCandidates.slice(0, Math.max(targetLoops * 3, 20)): every candidate
\* when there are no more than that; otherwise some candidates of that
\* number (the order of the scores is left open)
TopCandidateSets(cands, targetN) ==
    IF Cardinality(cands) <= Max(targetN * 3, MinTopCandidates)
    THEN {cands}
    ELSE {S \in SUBSET cands : Cardinality(S) = Max(targetN * 3, MinTopCandidates)}

SparseLocals(opts) ==
    [fn |-> "sparse", options |-> opts, maxPossibleLoops |-> 0, todo |-> {},
     targetLoops |-> 0, loopsAdded |-> 0, candidatesProcessed |-> 0]

SparseInit == \E opts \in SLOptions : BaseCall(MaxCellsSparse, SparseLocals(opts))

\* the checks of the base maze, findLoopCandidates, the early return, the
\* target and the shuffled top candidates
SLStart ==
    /\ BaseReturned
    /\ loc.fn = "sparse"
    /\ IF BaseRejected(maze) \/ ~isConnected(maze)
       THEN pc' = "sl_thrown" /\ UNCHANGED <<maze, loc>>
       ELSE LET cands == findLoopCandidates(maze)
                n == Cardinality(cands)
                t == targetLoops(n, loopiness(loc.options))
            IN IF cands = {}
               THEN /\ maze' = ensureBoundaryWalls(maze)
                    /\ pc' = "sl_returned"
                    /\ UNCHANGED loc
               ELSE /\ \E top \in TopCandidateSets(cands, t) :
                         loc' = [loc EXCEPT !.maxPossibleLoops = n, !.todo = top,
                                            !.targetLoops = t]
                    /\ pc' = "sl_loop"
                    /\ UNCHANGED maze
    /\ UNCHANGED <<width, height, visited, cur, notGen>>

SLLoopRuns == loc.todo # {} /\ loc.loopsAdded < loc.targetLoops

\* one iteration of the loop over the shuffled topCandidates
SLStep ==
    /\ pc = "sl_loop"
    /\ SLLoopRuns
    /\ \E sd \in loc.todo :
         IF ~hasWall(maze, sd[1], sd[2])
               \/ ~hasWall(maze, Neighbor(sd[1], sd[2]), opposite(sd[2]))
         THEN /\ loc' = [loc EXCEPT !.todo = @ \ {sd}, !.candidatesProcessed = @ + 1]
              /\ UNCHANGED maze
         ELSE IF isConnected(Carve(maze, sd[1], sd[2]))
         THEN /\ maze' = Carve(maze, sd[1], sd[2])
              /\ loc' = [loc EXCEPT !.todo = @ \ {sd}, !.candidatesProcessed = @ + 1,
                                    !.loopsAdded = @ + 1]
         ELSE /\ maze' = addWall(addWall(Carve(maze, sd[1], sd[2]), sd[1], sd[2]),
                                 Neighbor(sd[1], sd[2]), opposite(sd[2]))
              /\ loc' = [loc EXCEPT !.todo = @ \ {sd}, !.candidatesProcessed = @ + 1]
    /\ UNCHANGED <<width, height, pc, visited, cur, notGen>>

\* the loop is over: finalConnectivity, ensureBoundaryWalls, isValid, return
SLEnd ==
    /\ pc = "sl_loop"
    /\ ~SLLoopRuns
    /\ maze' = ensureBoundaryWalls(maze)
    /\ pc' = IF isValid(ensureBoundaryWalls(maze)) /\ isConnected(maze)
             THEN "sl_returned" ELSE "sl_thrown"
    /\ UNCHANGED <<width, height, visited, cur, loc, notGen>>

SparseNext ==
    \/ RBForward
    \/ RBBacktrack
    \/ RBReturn
    \/ SLStart
    \/ SLStep
    \/ SLEnd

SpecSparseLoop == SparseInit /\ [][SparseNext]_vars

(***************************************************************************)
(* The two post-processors, each called with a base algorithm.             *)
(***************************************************************************)
PostInit == BraidedInit \/ SparseInit

PostNext ==
    \/ RBForward
    \/ RBBacktrack
    \/ RBReturn
    \/ BraidStart
    \/ BraidStep
    \/ BraidEnd
    \/ SLStart
    \/ SLStep
    \/ SLEnd

SpecPostProcess == PostInit /\ [][PostNext]_vars

(***************************************************************************)
(* analyzeDistribution / balanceDistribution (src/utils/distributionUtils.js). *)
(* Ratios are kept as exact fractions: currentDist holds the raw counts    *)
(* (_counts) over _totalCells, a target is target.x / TargetDen.           *)
(***************************************************************************)
openCount(m, c) == Cardinality(Dirs \ m.cells[c])

getCellsOfDegree(m, degree) == {c \in DOMAIN m.cells : openCount(m, c) = degree}

analyzeDistribution(m) ==
    [deadEnds |-> Cardinality(getCellsOfDegree(m, 1)),
     straight |-> Cardinality(getCellsOfDegree(m, 2)),
     threeWay |-> Cardinality(getCellsOfDegree(m, 3)),
     fourWay |-> Cardinality(getCellsOfDegree(m, 4)),
     totalCells |-> m.width * m.height]

\* count / totalCells > t / TargetDen
RatioAbove(count, total, t) == count * TargetDen > t * total

\* count / totalCells < t / TargetDen
RatioBelow(count, total, t) == count * TargetDen < t * total

\* the budget rounded up instead of down
BudgetRoundedUp(count, total, t) ==
    Max(0, (count * TargetDen - t * total + TargetDen - 1) \div TargetDen)

\* Math.max(0, Math.floor((a/total - b/TargetDen) * total)) with a the count
Budget(count, total, t) == Max(0, (count * TargetDen - t * total) \div TargetDen)

\* Math.max(0, Math.floor((t/TargetDen - a/total) * total))
BudgetUp(count, total, t) == Max(0, (t * total - count * TargetDen) \div TargetDen)

\* the neighbour's matching wall is not looked at
OpenableDirsAnyNeighbor(m, c) ==
    {dir \in Dirs : /\ hasWall(m, c, dir)
                    /\ InBounds(m.width, m.height, Neighbor(c, dir))}

\* the directions in which the balancer may open a wall of the cell: wall
\* present, neighbour in bounds, neighbour's matching wall present
OpenableDirs(m, c) ==
    {dir \in Dirs : /\ hasWall(m, c, dir)
                    /\ InBounds(m.width, m.height, Neighbor(c, dir))
                    /\ hasWall(m, Neighbor(c, dir), opposite(dir))}

BalInit ==
    /\ \E d \in GridDims(MaxCellsInput) : width = d[1] /\ height = d[2]
    /\ \E sym \in SUBSET AllGridEdges(width, height) :
         \E half \in HalfOpenSets(width, height, sym) :
           \E openBoundary \in BOOLEAN :
             maze = InputMaze(width, height, sym, half, openBoundary)
    /\ \E td \in 0..TargetDen, tt \in 0..TargetDen :
           target = [deadEnds |-> td, threeWay |-> tt]
    /\ pc = "bal_call"
    /\ currentDist = <<>>
    /\ attempts = 0
    /\ maxDeadEndReductions = 0 /\ deadEndReductions = 0
    /\ maxThreeWayIncrease = 0 /\ threeWayIncrease = 0
    /\ entries = <<>>
    /\ edges = {} /\ edgesRemoved = 0 /\ targetRemovals = 0
    /\ visited = {} /\ cur = <<0, 0>>
    /\ NoWilsons /\ NoKruskals /\ NoRB /\ NoML /\ NoLocals

\* the call up to the first loop: analyzeDistribution, the connectivity
\* precondition, the dead-end budget
BalCall ==
    /\ pc = "bal_call"
    /\ entries' = Append(entries, maze)
    /\ currentDist' = analyzeDistribution(maze)
    /\ attempts' = 0
    /\ deadEndReductions' = 0
    /\ IF ~isConnected(maze)
       THEN /\ pc' = "bal_thrown"
            /\ UNCHANGED maxDeadEndReductions
       ELSE /\ pc' = "bal_phase1"
            /\ maxDeadEndReductions' =
                   Budget(analyzeDistribution(maze).deadEnds, maze.width * maze.height,
                          target.deadEnds)
    /\ UNCHANGED <<maze, target, maxThreeWayIncrease, threeWayIncrease, notBal>>

Phase1Runs ==
    /\ RatioAbove(currentDist.deadEnds, currentDist.totalCells, target.deadEnds)
    /\ deadEndReductions < maxDeadEndReductions
    /\ attempts < maxDeadEndReductions * 3
    /\ getCellsOfDegree(maze, 1) # {}

\* one iteration of the dead-end loop: a random dead end, its walls tried
\* in a random order, the first openable one opened on both sides
BalDeadEnd ==
    /\ pc = "bal_phase1"
    /\ Phase1Runs
    /\ attempts' = attempts + 1
    /\ \E c \in getCellsOfDegree(maze, 1) :
        IF OpenableDirs(maze, c) = {}
        THEN UNCHANGED <<maze, deadEndReductions, currentDist>>
        ELSE \E dir \in OpenableDirs(maze, c) :
               /\ maze' = Carve(maze, c, dir)
               /\ deadEndReductions' = deadEndReductions + 1
               /\ currentDist' = analyzeDistribution(Carve(maze, c, dir))
    /\ UNCHANGED <<pc, entries, target, maxDeadEndReductions, maxThreeWayIncrease,
                   threeWayIncrease, notBal>>

\* the dead-end loop ends; the junction budget
BalJunctionBudget ==
    /\ pc = "bal_phase1"
    /\ ~Phase1Runs
    /\ maxThreeWayIncrease' =
           BudgetUp(currentDist.threeWay, currentDist.totalCells, target.threeWay)
    /\ threeWayIncrease' = 0
    /\ attempts' = 0
    /\ pc' = "bal_phase2"
    /\ UNCHANGED <<maze, entries, target, currentDist, maxDeadEndReductions,
                   deadEndReductions, notBal>>

Phase2Runs ==
    /\ RatioBelow(currentDist.threeWay, currentDist.totalCells, target.threeWay)
    /\ threeWayIncrease < maxThreeWayIncrease
    /\ attempts < maxThreeWayIncrease * 3
    /\ getCellsOfDegree(maze, 2) # {}

\* one iteration of the junction loop: a random corridor cell, its walled
\* directions tried in a random order
BalJunction ==
    /\ pc = "bal_phase2"
    /\ Phase2Runs
    /\ attempts' = attempts + 1
    /\ \E c \in getCellsOfDegree(maze, 2) :
        IF OpenableDirs(maze, c) = {}
        THEN UNCHANGED <<maze, threeWayIncrease, currentDist>>
        ELSE \E dir \in OpenableDirs(maze, c) :
               /\ maze' = Carve(maze, c, dir)
               /\ threeWayIncrease' = threeWayIncrease + 1
               /\ currentDist' = analyzeDistribution(Carve(maze, c, dir))
    /\ UNCHANGED <<pc, entries, target, maxDeadEndReductions, deadEndReductions,
                   maxThreeWayIncrease, notBal>>

\* the junction loop ends; the final connectivity check
BalReturn ==
    /\ pc = "bal_phase2"
    /\ ~Phase2Runs
    /\ pc' = IF ~isConnected(maze) THEN "bal_thrown_final" ELSE "bal_returned"
    /\ UNCHANGED <<maze, entries, balVars, notBal>>

BalNext ==
    \/ BalCall
    \/ BalDeadEnd
    \/ BalJunctionBudget
    \/ BalJunction
    \/ BalReturn

SpecBalance == BalInit /\ [][BalNext]_vars

\* the call runs to completion once started: the loops are synchronous code
SpecBalanceFair == SpecBalance /\ WF_vars(BalNext)

(***************************************************************************)
(* handleGenerate (src/app.js) for the multi-layer algorithm with the      *)
(* single-path option: generation, validity check, ensureSinglePath.       *)
(***************************************************************************)
\* the form inputs handleGenerate is run with: <<width, height, layers, portals>>
HGInputs == {<<2, 2, 3, 1>>, <<3, 2, 2, 1>>}

HGInit ==
    \E in \in HGInputs : MLEntry(in[1], in[2], [layers |-> in[3], portals |-> in[4]])

\* the generated maze is checked and handed to ensureSinglePath
HGSinglePath ==
    /\ pc = "ml_returned"
    /\ pc' = IF isValid(maze) THEN "esp_call" ELSE "hg_thrown"
    /\ UNCHANGED <<width, height, maze, visited, cur, edges, loc, wilsonsVars,
                   kruskalsVars, rbVars, mlVars, espVars, balVars>>

HGNext ==
    \/ RBForward
    \/ RBBacktrack
    \/ RBReturn
    \/ MLNextLayer
    \/ MLCombine
    \/ HGSinglePath
    \/ ESPCall
    \/ ESPEdge
    \/ ESPReturn

SpecGenerateSinglePath == HGInit /\ [][HGNext]_vars

(***************************************************************************)
(* handleGenerate (src/app.js) with both post-processing options: the      *)
(* generation, the validity check, balanceDistribution, ensureSinglePath,  *)
(* the final validity check and the rendering.  The form is the record     *)
(* loc.                                                                    *)
(***************************************************************************)
\* the algorithms ensureSinglePath is applied to
LOOP_ALGOS == {"braided", "sparse-loop", "multi-layer"}

\* the forms handleGenerate is run with
HGForms ==
    [algorithm : {"recursive-backtracker", "multi-layer"},
     width : {2, 3}, height : {2},
     singlePath : BOOLEAN, balanceDist : BOOLEAN,
     distribution : [deadEnds : 0..TargetDen, threeWay : 0..TargetDen]]

\* the options of the form's algorithm (<<>>: the algorithm has none)
HGOptions(form) ==
    IF form.algorithm = "multi-layer" THEN [layers |-> 2, portals |-> 1] ELSE <<>>

HGFormInit ==
    /\ \E form \in HGForms :
        /\ form.balanceDist \/ form.distribution = [deadEnds |-> 0, threeWay |-> 0]
        /\ form.algorithm = "multi-layer" => form.width = 2
        /\ loc = form
        /\ width = form.width /\ height = form.height
        /\ options = HGOptions(form)
        /\ target = form.distribution
    /\ mazes = <<>>
    /\ portalList = <<>>
    /\ maze = RBEntryMaze(width, height)
    /\ visited = {<<0, 0>>}
    /\ cur = <<0, 0>>
    /\ stack = <<>>
    /\ totalVisited = 1
    /\ iterations = 0
    /\ emergency = FALSE
    /\ pc = "rb_loop"
    /\ edges = {}
    /\ currentDist = <<>> /\ attempts = 0
    /\ maxDeadEndReductions = 0 /\ deadEndReductions = 0
    /\ maxThreeWayIncrease = 0 /\ threeWayIncrease = 0
    /\ NoWilsons /\ NoKruskals /\ NoESP

\* the algorithm has returned currentMaze
HGGenerated ==
    IF loc.algorithm = "multi-layer" THEN pc = "ml_returned" ELSE pc = "rb_returned"

\* ensureSinglePath is run a second time, before balanceDistribution
AfterGenerationSinglePathFirst(form) ==
    IF form.singlePath /\ form.algorithm \in LOOP_ALGOS THEN "esp_call"
    ELSE IF form.balanceDist THEN "bal_call"
    ELSE "hg_final"

\* what follows the check of the generated maze
AfterGeneration(form) ==
    IF form.balanceDist THEN "bal_call"
    ELSE IF form.singlePath /\ form.algorithm \in LOOP_ALGOS THEN "esp_call"
    ELSE "hg_final"

\* what follows balanceDistribution, returned or thrown
AfterBalance(form) ==
    IF form.singlePath /\ form.algorithm \in LOOP_ALGOS THEN "esp_call"
    ELSE "hg_final"

\* the check of the generated maze
HGCheckGenerated ==
    /\ HGGenerated
    /\ pc' = IF ~isValid(maze) THEN "hg_thrown" ELSE AfterGeneration(loc)
    /\ UNCHANGED <<width, height, maze, visited, cur, edges, loc, wilsonsVars,
                   kruskalsVars, rbVars, mlVars, espVars, balVars>>

\* balanceDistribution has returned or thrown (the error is only logged)
HGAfterBalance ==
    /\ pc \in {"bal_returned", "bal_thrown", "bal_thrown_final"}
    /\ pc' = AfterBalance(loc)
    /\ UNCHANGED <<width, height, maze, visited, cur, edges, loc, wilsonsVars,
                   kruskalsVars, rbVars, mlVars, espVars, balVars>>

\* ensureSinglePath has returned or thrown (the error is only logged)
HGAfterSinglePath ==
    /\ pc \in {"esp_returned", "esp_thrown"}
    /\ pc' = "hg_final"
    /\ UNCHANGED <<width, height, maze, visited, cur, edges, loc, wilsonsVars,
                   kruskalsVars, rbVars, mlVars, espVars, balVars>>

\* the final validity check and renderMaze
HGRender ==
    /\ pc = "hg_final"
    /\ pc' = IF ~isValid(maze) THEN "hg_thrown" ELSE "hg_rendered"
    /\ UNCHANGED <<width, height, maze, visited, cur, edges, loc, wilsonsVars,
                   kruskalsVars, rbVars, mlVars, espVars, balVars>>

HandleGenerateNext ==
    \/ RBForward
    \/ RBBacktrack
    \/ RBReturn
    \/ MLNextLayer
    \/ MLCombine
    \/ HGCheckGenerated
    \/ BalCall
    \/ BalDeadEnd
    \/ BalJunctionBudget
    \/ BalJunction
    \/ BalReturn
    \/ HGAfterBalance
    \/ ESPCall
    \/ ESPEdge
    \/ ESPReturn
    \/ HGAfterSinglePath
    \/ HGRender

SpecHandleGenerate == HGFormInit /\ [][HandleGenerateNext]_vars

(***************************************************************************)
(* The connectivity oracle isConnected called on its own                   *)
(* (src/utils/mazeUtils.js, src/utils/distributionUtils.js): the maze is   *)
(* any input maze with its start on any cell.                              *)
(***************************************************************************)
ConnInit ==
    /\ \E d \in GridDims(MaxCellsInput) : width = d[1] /\ height = d[2]
    /\ \E sym \in SUBSET AllGridEdges(width, height) :
         \E half \in HalfOpenSets(width, height, sym) :
           \E openBoundary \in BOOLEAN :
             \E s \in CellsOf(width, height) :
               maze = [InputMaze(width, height, sym, half, openBoundary)
                          EXCEPT !.start = s]
    /\ pc = "conn_call"
    /\ loc = [result |-> FALSE]
    /\ edges = {}
    /\ visited = {} /\ cur = <<0, 0>>
    /\ NoWilsons /\ NoKruskals /\ NoRB /\ NoML /\ NoESP /\ NoBal

\* isConnected(maze): the search from maze.start and the count comparison
ConnCall ==
    /\ pc = "conn_call"
    /\ loc' = [result |-> isConnected(maze)]
    /\ visited' = BFS(maze, {maze.start}, {maze.start})
    /\ pc' = "conn_returned"
    /\ UNCHANGED <<width, height, maze, cur>>
    /\ UNCHANGED notGen

ConnNext == ConnCall

SpecIsConnected == ConnInit /\ [][ConnNext]_vars

(***************************************************************************)
(* The Maze and MazeCell classes (src/model/maze.js) on the values a       *)
(* caller can pass.  A number n is kept as the integer 2n, so that 2.5 is  *)
(* 5; a coordinate is a whole number; a position is <<x, y>>; undefined is *)
(* <<>>; an array is a sequence; a MazeCell is its set of walls.  The      *)
(* upper limits on the dimensions are far above the grids looked at and    *)
(* are left out.                                                           *)
(***************************************************************************)
Num(n) == n + n

NumberIsInteger(v) == v % 2 = 0

\* a grid entry that is not a MazeCell
PlainObject == {"Object"}

instanceofMazeCell(e) == e \subseteq Dirs

\* the metadata properties a maze can carry, each absent (<<>>) or <<value>>
NoMeta ==
    [_portals |-> <<>>, _layers |-> <<>>, _widthPerLayer |-> <<>>,
     _heightPerLayer |-> <<>>, _portalCount |-> <<>>]

\* a position check that accepts every position
_isValidPositionAlways(o, pos) == TRUE

_isValidPosition(o, pos) ==
    /\ pos # <<>>
    /\ pos[1] >= 0 /\ Num(pos[1]) < o.width
    /\ pos[2] >= 0 /\ Num(pos[2]) < o.height

\* the default parameters of the constructor
DefaultStart(start) == IF start = <<>> THEN <<0, 0>> ELSE start

DefaultFinish(w, h, finish) ==
    IF finish = <<>> THEN <<(w \div 2) - 1, (h \div 2) - 1>> ELSE finish

\* new Maze(width, height, start, finish) throws
MazeThrows(w, h, start, finish) ==
    \/ ~NumberIsInteger(w) \/ ~NumberIsInteger(h)
    \/ w < Num(2) \/ h < Num(2)
    \/ ~_isValidPosition([width |-> w, height |-> h], DefaultStart(start))
    \/ ~_isValidPosition([width |-> w, height |-> h], DefaultFinish(w, h, finish))

\* the grid the constructor creates when no cells are supplied
NewCells(w, h) == [y \in 1..(h \div 2) |-> [x \in 1..(w \div 2) |-> MazeCell]]

\* the object new Maze(width, height, start, finish, cells) constructs;
\* cells = <<>> is the default null
Maze(w, h, start, finish, cells) ==
    [width |-> w, height |-> h,
     start |-> DefaultStart(start), finish |-> DefaultFinish(w, h, finish),
     cells |-> IF cells # <<>> THEN cells ELSE NewCells(w, h),
     meta |-> NoMeta]

\* isValid without the check for a cell with fewer than four walls
Maze_isValidStructure(o) ==
    /\ NumberIsInteger(o.width) /\ NumberIsInteger(o.height)
    /\ o.width >= Num(2) /\ o.height >= Num(2)
    /\ Num(Len(o.cells)) = o.height
    /\ \A y \in 1..Len(o.cells) :
          /\ Num(Len(o.cells[y])) = o.width
          /\ \A x \in 1..Len(o.cells[y]) : instanceofMazeCell(o.cells[y][x])
    /\ _isValidPosition(o, o.start) /\ _isValidPosition(o, o.finish)

\* Maze.isValid(): the checks in the order of the code; none of them can
\* throw on these values, so the catch branch is never taken
Maze_isValid(o) ==
    /\ NumberIsInteger(o.width) /\ NumberIsInteger(o.height)
    /\ o.width >= Num(2) /\ o.height >= Num(2)
    /\ Num(Len(o.cells)) = o.height
    /\ \A y \in 1..Len(o.cells) :
          /\ Num(Len(o.cells[y])) = o.width
          /\ \A x \in 1..Len(o.cells[y]) : instanceofMazeCell(o.cells[y][x])
    /\ _isValidPosition(o, o.start) /\ _isValidPosition(o, o.finish)
    /\ \E y \in 1..Len(o.cells) : \E x \in 1..Len(o.cells[y]) :
          Len(SelectSeq(<<"N", "E", "S", "W">>, LAMBDA d : d \in o.cells[y][x])) < 4

\* MazeCell.getWallArray: the walls as an array (the set's insertion order
\* is not kept by the model; the array lists them in the order N, E, S, W)
getWallArray(cell) == SelectSeq(<<"N", "E", "S", "W">>, LAMBDA d : d \in cell)

MazeCell_toJSON(cell) == [walls |-> getWallArray(cell)]

\* MazeCell.from(obj): new MazeCell(obj.walls || []), a Set of the entries
MazeCell_from(obj) == {obj.walls[i] : i \in DOMAIN obj.walls}

\* a metadata property is copied when it is truthy: an array always is, a
\* number when it is not 0
Truthy(opt, isArray) == opt # <<>> /\ (isArray \/ opt[1] # 0)

CopiedMeta(meta) ==
    [_portals |-> IF Truthy(meta._portals, TRUE) THEN meta._portals ELSE <<>>,
     _layers |-> IF Truthy(meta._layers, FALSE) THEN meta._layers ELSE <<>>,
     _widthPerLayer |->
        IF Truthy(meta._widthPerLayer, FALSE) THEN meta._widthPerLayer ELSE <<>>,
     _heightPerLayer |->
        IF Truthy(meta._heightPerLayer, FALSE) THEN meta._heightPerLayer ELSE <<>>,
     _portalCount |-> <<>>]

\* toJSON throws when a grid entry has no toJSON method
Maze_toJSONThrows(o) ==
    \E y \in 1..Len(o.cells) : \E x \in 1..Len(o.cells[y]) :
        ~instanceofMazeCell(o.cells[y][x])

Maze_toJSON(o) ==
    [width |-> o.width, height |-> o.height,
     cells |-> [y \in 1..Len(o.cells) |->
                  [x \in 1..Len(o.cells[y]) |-> MazeCell_toJSON(o.cells[y][x])]],
     start |-> o.start, finish |-> o.finish,
     meta |-> CopiedMeta(o.meta)]

\* the cells Maze.from builds before it calls the constructor
FromCells(obj) ==
    [y \in 1..Len(obj.cells) |->
        [x \in 1..Len(obj.cells[y]) |-> MazeCell_from(obj.cells[y][x])]]

Maze_fromThrows(obj) == MazeThrows(obj.width, obj.height, obj.start, obj.finish)

Maze_from(obj) ==
    [Maze(obj.width, obj.height, obj.start, obj.finish, FromCells(obj))
        EXCEPT !.meta = CopiedMeta(obj.meta)]

\* the rows of a maze of the generators' model, as the cells array
RowsOf(m) == [y \in 1..m.height |-> [x \in 1..m.width |-> m.cells[<<x - 1, y - 1>>]]]

(***************************************************************************)
(* The checks a generation function makes on width and height before it    *)
(* does anything else, for every version of every generator.  One that     *)
(* has no check of its own constructs its Maze first; braided and sparse   *)
(* loop without checks and multi-layer first call                          *)
(* generateRecursiveBacktracker.                                           *)
(***************************************************************************)
ChecksIntegers ==
    {"recursiveBacktracker", "kruskals", "huntAndKill", "ellers",
     "sidewinder_fixed", "aldousBroder_fixed", "prims_fixed",
     "binaryTree_fixed", "braided_fixed", "sparseLoop_fixed"}

ConstructsFirst ==
    {"sidewinder", "wilsons", "wilsons_working", "kruskals_working",
     "huntAndKill_working", "binaryTree", "aldousBroder_working",
     "prims_working"}

CallsBaseFirst == {"braided", "sparseLoop", "multiLayer", "multiLayer_seams"}

Generators == ChecksIntegers \cup ConstructsFirst \cup CallsBaseFirst

\* the least width and height a generator's own check lets through, as a
\* number (0: no check of its own)
OwnMinimum(g) ==
    IF g \in {"braided_fixed", "sparseLoop_fixed"} THEN Num(3)
    ELSE IF g \in ChecksIntegers \cup {"multiLayer_seams"} THEN Num(2)
    ELSE 0

\* generateRecursiveBacktracker(width, height) throws on its input checks
RBThrows(w, h) ==
    \/ ~NumberIsInteger(w) \/ ~NumberIsInteger(h)
    \/ w < Num(2) \/ h < Num(2)

\* the generator throws before it carves anything
GeneratorThrows(g, w, h) ==
    \/ g \in ChecksIntegers /\ (~NumberIsInteger(w) \/ ~NumberIsInteger(h))
    \/ w < OwnMinimum(g) \/ h < OwnMinimum(g)
    \/ g \in CallsBaseFirst /\ RBThrows(w, h)
    \/ g \notin CallsBaseFirst
          /\ MazeThrows(w, h, <<0, 0>>, <<(w \div 2) - 1, (h \div 2) - 1>>)

(***************************************************************************)
(* The calls made on the Maze class and on the generators' entries.        *)
(***************************************************************************)
DimValues == 0..(Num(MaxDim) + 1)

PosValues == {<<>>} \cup ((-1..MaxDim) \X (-1..MaxDim))

\* the positions a caller assigns to start or finish
AssignedPositions == {<<>>, <<-1, 0>>, <<0, MaxDim>>, <<1, 1>>}

InputGrids ==
    UNION {UNION {UNION {
        {RowsOf(InputMaze(d[1], d[2], sym, half, ob)) : ob \in BOOLEAN}
            : half \in HalfOpenSets(d[1], d[2], sym)}
            : sym \in SUBSET AllGridEdges(d[1], d[2])}
            : d \in GridDims(MaxCellsClass)}

WalledGrids ==
    {[y \in 1..gh |-> [x \in 1..gw |-> Dirs]] :
        gw \in 1..MaxDim, gh \in 1..MaxDim}

\* a grid with one entry that is no MazeCell, or with a short last row
Damaged(g) ==
    {[g EXCEPT ![y][x] = PlainObject] : y \in 1..Len(g), x \in 1..Len(g[1])}
        \cup {[g EXCEPT ![Len(g)] = Tail(@)]}

SuppliedCells ==
    InputGrids \cup WalledGrids \cup UNION {Damaged(g) : g \in InputGrids}

Calls ==
    [fn : Generators, width : DimValues, height : DimValues,
     start : {<<>>}, finish : {<<>>}, cells : {<<>>}]
    \cup [fn : {"Maze"}, width : DimValues, height : DimValues,
          start : PosValues, finish : PosValues, cells : {<<>>}]
    \cup [fn : {"Maze"}, width : {Num(2), Num(3)}, height : {Num(2), Num(3)},
          start : {<<>>}, finish : {<<>>}, cells : SuppliedCells]

ClassInit ==
    /\ pc = "call"
    /\ \E c \in Calls :
         loc = [call |-> c, obj |-> <<>>, json |-> <<>>, copy |-> <<>>,
                result |-> FALSE]
    /\ width = 0 /\ height = 0 /\ maze = <<>>
    /\ edges = {}
    /\ visited = {} /\ cur = <<0, 0>>
    /\ NoWilsons /\ NoKruskals /\ NoRB /\ NoML /\ NoESP /\ NoBal

\* a generator is called: its input checks, up to the first wall it sets
GeneratorEntry ==
    /\ pc = "call"
    /\ loc.call.fn \in Generators
    /\ pc' = IF GeneratorThrows(loc.call.fn, loc.call.width, loc.call.height)
             THEN "gen_thrown" ELSE "gen_running"
    /\ UNCHANGED <<width, height, maze, visited, cur, loc>>
    /\ UNCHANGED notGen

\* new Maze(width, height, start, finish, cells)
MazeNew ==
    /\ pc = "call"
    /\ loc.call.fn = "Maze"
    /\ LET c == loc.call
       IN IF MazeThrows(c.width, c.height, c.start, c.finish)
          THEN pc' = "maze_thrown" /\ UNCHANGED loc
          ELSE /\ pc' = "constructed"
               /\ loc' = [loc EXCEPT !.obj =
                            Maze(c.width, c.height, c.start, c.finish, c.cells)]
    /\ UNCHANGED <<width, height, maze, visited, cur>>
    /\ UNCHANGED notGen

\* a caller assigns to one of the object's public properties
AssignField ==
    /\ pc = "constructed"
    /\ \/ \E v \in DimValues : loc' = [loc EXCEPT !.obj.width = v]
       \/ \E v \in DimValues : loc' = [loc EXCEPT !.obj.height = v]
       \/ \E p \in AssignedPositions : loc' = [loc EXCEPT !.obj.start = p]
       \/ \E p \in AssignedPositions : loc' = [loc EXCEPT !.obj.finish = p]
    /\ pc' = "assigned"
    /\ UNCHANGED <<width, height, maze, visited, cur>>
    /\ UNCHANGED notGen

\* maze.isValid()
IsValidCall ==
    /\ pc \in {"constructed", "assigned"}
    /\ loc' = [loc EXCEPT !.result = Maze_isValid(loc.obj)]
    /\ pc' = "isvalid_returned"
    /\ UNCHANGED <<width, height, maze, visited, cur>>
    /\ UNCHANGED notGen

\* maze.toJSON()
ToJSONCall ==
    /\ pc \in {"constructed", "assigned"}
    /\ IF Maze_toJSONThrows(loc.obj)
       THEN pc' = "tojson_thrown" /\ UNCHANGED loc
       ELSE pc' = "tojson_returned"
            /\ loc' = [loc EXCEPT !.json = Maze_toJSON(loc.obj)]
    /\ UNCHANGED <<width, height, maze, visited, cur>>
    /\ UNCHANGED notGen

\* Maze.from(json)
FromCall ==
    /\ pc = "tojson_returned"
    /\ IF Maze_fromThrows(loc.json)
       THEN pc' = "from_thrown" /\ UNCHANGED loc
       ELSE pc' = "from_returned"
            /\ loc' = [loc EXCEPT !.copy = Maze_from(loc.json)]
    /\ UNCHANGED <<width, height, maze, visited, cur>>
    /\ UNCHANGED notGen

ClassNext ==
    \/ GeneratorEntry
    \/ MazeNew
    \/ AssignField
    \/ IsValidCall
    \/ ToJSONCall
    \/ FromCall

SpecMazeClass == ClassInit /\ [][ClassNext]_vars

(***************************************************************************)
(* The maze generateMultiLayer returns, serialised and read back.          *)
(***************************************************************************)
\* the Maze object a returned multi-layer maze is, with the metadata stored
\* on it; only the version with enforceSeamSymmetry stores _portalCount
MultiLayerObject ==
    [width |-> Num(maze.width), height |-> Num(maze.height),
     start |-> maze.start, finish |-> maze.finish,
     cells |-> RowsOf(maze),
     meta |-> [_portals |-> <<portalList>>, _layers |-> <<layers>>,
               _widthPerLayer |-> <<width>>, _heightPerLayer |-> <<height>>,
               _portalCount |-> IF pc = "mls_returned"
                                THEN <<Len(portalList)>> ELSE <<>>]]

\* flatMaze.toJSON() on the returned maze
MLToJSON ==
    /\ pc \in {"ml_returned", "mls_returned"}
    /\ loc' = [call |-> [fn |-> pc], obj |-> MultiLayerObject,
               json |-> Maze_toJSON(MultiLayerObject), copy |-> <<>>,
               result |-> FALSE]
    /\ pc' = "tojson_returned"
    /\ UNCHANGED <<width, height, maze, visited, cur>>
    /\ UNCHANGED notGen

RoundTripNext ==
    \/ RBForward
    \/ RBBacktrack
    \/ RBReturn
    \/ MLNextLayer
    \/ MLCombine
    \/ MLCombineSeams
    \/ MLToJSON
    \/ FromCall

SpecRoundTrip == MLInit /\ [][RoundTripNext]_vars

(***************************************************************************)
(* The event loop of the page (src/app.js): clicks, timers and animation   *)
(* frames run their handlers one at a time, each to its end or to its      *)
(* await.  loc holds isGenerating, generateBtn.disabled, whether           *)
(* currentMaze is set, the handleGenerate invocations in call order, the   *)
(* pending timers and the number of handlePrintWorksheet runs.             *)
(***************************************************************************)
\* handleGenerate is invoked at most this many times
MaxInvocations == 3

\* handlePrintWorksheet is run at most this many times
MaxPrints == 2

\* the values of the URL parameter "action" that handlePWAShortcuts reads
Actions == {"none", "generate", "pdf"}

\* setGenerating(flag)
setGenerating(l, flag) == [l EXCEPT !.isGenerating = flag, !.disabled = flag]

\* handleGenerate from its call to its await: the isGenerating guard,
\* setGenerating(true), the lookup of the algorithm (a missing one throws:
\* catch and finally run at once)
handleGenerate(l, available) ==
    IF l.isGenerating THEN l
    ELSE IF available
    THEN [setGenerating(l, TRUE) EXCEPT !.invocations = Append(@, "awaiting")]
    ELSE [setGenerating(l, FALSE) EXCEPT !.invocations = Append(@, "finished"),
                                         !.currentMaze = FALSE]

\* handlePrintWorksheet without its calls of setGenerating
handlePrintWorksheetNoFlag(l) == [l EXCEPT !.prints = @ + 1]

\* handlePrintWorksheet: no await inside, so it runs from setGenerating(true)
\* to the setGenerating(false) of its finally in one task
handlePrintWorksheet(l) ==
    [setGenerating(setGenerating(l, TRUE), FALSE) EXCEPT !.prints = @ + 1]

\* initialize: handlePWAShortcuts sets its 500 ms timer, then the 100 ms
\* timer of the demo maze is set
AppInit ==
    /\ \E action \in Actions :
         loc = [isGenerating |-> FALSE, disabled |-> FALSE, currentMaze |-> FALSE,
                invocations |-> <<>>, prints |-> 0,
                timers |-> {"demo"} \cup (IF action = "none" THEN {} ELSE {action})]
    /\ pc = "event_loop"
    /\ width = 0 /\ height = 0 /\ maze = <<>>
    /\ edges = {}
    /\ visited = {} /\ cur = <<0, 0>>
    /\ NoWilsons /\ NoKruskals /\ NoRB /\ NoML /\ NoESP /\ NoBal

AppFrame == UNCHANGED <<width, height, maze, pc, visited, cur, notGen>>

\* a click on generateBtn, or a submit of the form: not while the button is
\* disabled
ClickGenerate ==
    /\ ~loc.disabled
    /\ Len(loc.invocations) < MaxInvocations
    /\ \E available \in BOOLEAN : loc' = handleGenerate(loc, available)
    /\ AppFrame

\* the 100 ms timer of initialize
TimerDemo ==
    /\ "demo" \in loc.timers
    /\ loc' = [(IF loc.currentMaze THEN loc ELSE handleGenerate(loc, TRUE))
                  EXCEPT !.timers = @ \ {"demo"}]
    /\ AppFrame

\* the 500 ms timer of handlePWAShortcuts with action=generate
TimerGenerate ==
    /\ "generate" \in loc.timers
    /\ "demo" \notin loc.timers
    /\ loc' = [handleGenerate(loc, TRUE) EXCEPT !.timers = @ \ {"generate"}]
    /\ AppFrame

\* the 500 ms timer of handlePWAShortcuts with action=pdf
TimerPrint ==
    /\ "pdf" \in loc.timers
    /\ "demo" \notin loc.timers
    /\ loc' = [handlePrintWorksheet(loc) EXCEPT !.timers = @ \ {"pdf"}]
    /\ AppFrame

\* a click on printWorksheetBtn
ClickPrint ==
    /\ loc.prints < MaxPrints
    /\ loc' = handlePrintWorksheet(loc)
    /\ AppFrame

\* the animation frame the oldest waiting handleGenerate awaits: the rest of
\* the handler runs, the maze is rendered or the error shown, and the
\* finally block calls setGenerating(false)
AnimationFrame ==
    /\ \E i \in DOMAIN loc.invocations :
        /\ loc.invocations[i] = "awaiting"
        /\ \A j \in 1..(i - 1) : loc.invocations[j] # "awaiting"
        /\ \E rendered \in BOOLEAN :
             loc' = [setGenerating(loc, FALSE) EXCEPT !.invocations[i] = "finished",
                                                      !.currentMaze = rendered]
    /\ AppFrame

AppNext ==
    \/ ClickGenerate
    \/ TimerDemo
    \/ TimerGenerate
    \/ TimerPrint
    \/ ClickPrint
    \/ AnimationFrame

SpecApp == AppInit /\ [][AppNext]_vars

(***************************************************************************)
(* Properties.                                                             *)
(***************************************************************************)
\* the wall flag on every shared side is the same in both cells
Symmetric(m) ==
    \A sd \in InnerSides(m.width, m.height) :
        hasWall(m, sd[1], sd[2])
            <=> hasWall(m, Neighbor(sd[1], sd[2]), opposite(sd[2]))

\* the sides of the grid's outer boundary
BoundarySides(m) ==
    {sd \in (DOMAIN m.cells) \X Dirs :
        ~InBounds(m.width, m.height, Neighbor(sd[1], sd[2]))}

\* the cells one open side away from a cell of S
StepFrom(m, S) ==
    {n \in DOMAIN m.cells :
        \E c \in S, dir \in Dirs : ~hasWall(m, c, dir) /\ n = Neighbor(c, dir)}

\* the cells reachable from S through open sides
RECURSIVE ReachableFrom(_, _)
ReachableFrom(m, S) ==
    IF StepFrom(m, S) \subseteq S THEN S ELSE ReachableFrom(m, S \cup StepFrom(m, S))

\* every cell is reachable from start through open passages
FullyConnected(m) == ReachableFrom(m, {m.start}) = DOMAIN m.cells

\* the East and South sides, inside the grid, that have no wall
OpenInternalEdges(m) ==
    {e \in AllGridEdges(m.width, m.height) : ~hasWall(m, e[1], e[2])}

\* a perfect maze: fully connected, width*height - 1 open internal edges
SpanningTree(m) ==
    FullyConnected(m) /\ Cardinality(OpenInternalEdges(m)) = m.width * m.height - 1

\* the maze m with the passage on side sd opened in both cells
OpenedOn(m, sd) ==
    [m EXCEPT !.cells[sd[1]] = @ \ {sd[2]},
              !.cells[Neighbor(sd[1], sd[2])] = @ \ {opposite(sd[2])}]

\* the program points at which a generator has returned its maze
ReturnedPcs == {"wilsons_returned", "kruskals_returned", "rb_returned", "ml_returned"}

\* the boundary sides of the maze that have no wall
OpenBoundary(m) == {sd \in BoundarySides(m) : ~hasWall(m, sd[1], sd[2])}

\* the input of the first post-processor call is valid, symmetric, connected
GoodInput == /\ calls >= 1
             /\ isValid(entries[1])
             /\ Symmetric(entries[1])
             /\ FullyConnected(entries[1])

\* C1: in every maze a generation function returns, the wall flag on every
\* shared side of two adjacent cells is the same in both cells
C1_ReturnedMazeSymmetric == pc \in ReturnedPcs => Symmetric(maze)

\* C2: the maze generateWilsons returns is a spanning tree: every cell
\* reachable from start, exactly width*height - 1 open internal edges
C2_WilsonsSpanningTree == pc = "wilsons_returned" => SpanningTree(maze)

\* C3: in every returned maze exactly one boundary wall of the start cell and
\* exactly one of the finish cell is open, every other boundary wall present
C3_OneOpeningAtStartAndFinish ==
    pc \in ReturnedPcs =>
        /\ Cardinality({sd \in OpenBoundary(maze) : sd[1] = maze.start}) = 1
        /\ Cardinality({sd \in OpenBoundary(maze) : sd[1] = maze.finish}) = 1
        /\ \A sd \in OpenBoundary(maze) : sd[1] \in {maze.start, maze.finish}

\* C4: for a valid, wall-symmetric, fully connected input, the maze
\* ensureSinglePath returns is a spanning tree, whatever the shuffle order
C4_SinglePathIsSpanningTree ==
    (pc = "esp_returned" /\ GoodInput) => SpanningTree(maze)

C4_Witness ==
    /\ pc = "esp_returned" /\ calls = 1 /\ GoodInput
    /\ Cardinality(OpenInternalEdges(entries[1])) >= width * height + 1
    /\ edgesRemoved = 2

\* C5: ensureSinglePath never opens a wall, closes passages on both sides,
\* and leaves the outer boundary as it was
C5_SinglePathOnlyCloses ==
    calls >= 1 /\ pc \in {"esp_loop", "esp_returned"} =>
        LET before == entries[calls]
        IN /\ \A c \in DOMAIN maze.cells : before.cells[c] \subseteq maze.cells[c]
           /\ \A sd \in InnerSides(maze.width, maze.height) :
                (~hasWall(before, sd[1], sd[2]) /\ hasWall(maze, sd[1], sd[2]))
                    => hasWall(maze, Neighbor(sd[1], sd[2]), opposite(sd[2]))
           /\ \A sd \in BoundarySides(maze) :
                hasWall(maze, sd[1], sd[2]) <=> hasWall(before, sd[1], sd[2])

\* C6: a maze with width*height - 1 open internal edges is left unchanged,
\* and the second of two consecutive calls on a connected maze removes nothing
C6_SinglePathIdempotent ==
    /\ (pc = "esp_returned" /\ calls >= 1
          /\ Cardinality(OpenInternalEdges(entries[calls])) = width * height - 1)
            => maze = entries[calls]
    /\ (calls >= 2 /\ FullyConnected(entries[1]))
            => (edgesRemoved = 0 /\ maze = entries[2])

C6_Witness ==
    /\ pc = "esp_returned" /\ calls = 2
    /\ FullyConnected(entries[1])
    /\ Cardinality(OpenInternalEdges(entries[1])) > width * height - 1
    /\ entries[2] # entries[1]

\* C7: every change balanceDistribution makes to the maze removes, in both
\* cells, an interior wall that was present in both; no wall is added, no
\* boundary wall touched, and the number of open edges never goes down
C7_BalanceOnlyOpensInteriorWalls ==
    /\ [][maze' # maze =>
            /\ \E sd \in InnerSides(maze.width, maze.height) :
                 /\ hasWall(maze, sd[1], sd[2])
                 /\ hasWall(maze, Neighbor(sd[1], sd[2]), opposite(sd[2]))
                 /\ maze' = OpenedOn(maze, sd)
            /\ Cardinality(OpenInternalEdges(maze'))
                   >= Cardinality(OpenInternalEdges(maze))]_vars
    /\ [](calls >= 1 =>
            /\ \A c \in DOMAIN maze.cells : maze.cells[c] \subseteq entries[1].cells[c]
            /\ \A sd \in BoundarySides(maze) :
                 hasWall(maze, sd[1], sd[2]) <=> hasWall(entries[1], sd[1], sd[2])
            /\ Cardinality(OpenInternalEdges(maze))
                   >= Cardinality(OpenInternalEdges(entries[1])))

C7_Witness ==
    /\ pc = "bal_returned"
    /\ deadEndReductions >= 1
    /\ threeWayIncrease >= 1

\* C8: a maze fully connected when balanceDistribution is called is fully
\* connected after every mutation, and the final check does not throw
C8_BalanceKeepsConnectivity ==
    (calls >= 1 /\ FullyConnected(entries[1])) =>
        (FullyConnected(maze) /\ pc # "bal_thrown_final")

C8_Witness ==
    /\ pc = "bal_returned"
    /\ FullyConnected(entries[1])
    /\ Cardinality(OpenInternalEdges(maze))
           >= Cardinality(OpenInternalEdges(entries[1])) + 2

\* C9: called on a maze that is not fully connected, balanceDistribution
\* throws with every wall as it was
C9_BalanceThrowsBeforeChange ==
    (calls >= 1 /\ ~FullyConnected(entries[1])) =>
        (pc = "bal_thrown" /\ maze = entries[1])

C9_Witness ==
    /\ pc = "bal_thrown"
    /\ ~FullyConnected(entries[1])
    /\ getCellsOfDegree(entries[1], 1) # {}
    /\ target.deadEnds = 0

\* C10: generateKruskals carves a wall only between two cells that are in
\* different union-find components at that moment, and the maze it returns
\* is a spanning tree, for every order of the edges
C10_KruskalsCarvesAcrossComponents ==
    /\ [][(edges' # edges /\ maze' # maze) =>
            \E edge \in edges \ edges' :
                /\ maze' = OpenedOn(maze, edge)
                /\ FindRoot(uf.parent, cellToIndex(edge[1]))
                       # FindRoot(uf.parent, cellToIndex(Neighbor(edge[1], edge[2])))]_vars
    /\ [](pc = "kruskals_returned" => SpanningTree(maze))

C10_Witness ==
    /\ pc = "kruskals_returned"
    /\ edgesAdded = width * height - 1
    /\ Cardinality(edges) + edgesAdded < Cardinality(AllGridEdges(width, height))

\* C13: generateRecursiveBacktracker visits every cell by carving: it never
\* takes the empty-stack emergency jump, never leaves its loop on the
\* iteration cap with a cell unvisited, and returns a spanning tree
C13_BacktrackerSpanningTree ==
    /\ ~emergency
    /\ pc # "rb_thrown"
    /\ (pc \in {"rb_end", "rb_returned"} \/ iterations >= width * height * 10)
          => visited = CellsOf(width, height)
    /\ pc = "rb_returned" => SpanningTree(maze)

C13_Witness ==
    /\ pc = "rb_returned"
    /\ width * height >= 6
    /\ iterations > width * height

\* C11: in generateEller no two cells of one set are merged horizontally,
\* the final row merges every adjacent pair of different sets, every set of a
\* non-final row gets a vertical connection, and the returned maze is a
\* spanning tree
C11_EllerSpanningTree ==
    /\ [][/\ (pc = "eller_east" /\ maze' # maze) =>
                 /\ loc.currentRowSets[loc.x] # loc.currentRowSets[loc.x + 1]
                 /\ maze' = OpenedOn(maze, <<<<loc.x, loc.rowIndex>>, "E">>)
          /\ (pc = "eller_east" /\ loc.rowIndex = height - 1
                /\ loc.currentRowSets[loc.x] # loc.currentRowSets[loc.x + 1]) =>
                 ~hasWall(maze', <<loc.x, loc.rowIndex>>, "E")
          /\ pc = "eller_force" =>
                 \A i \in DOMAIN loc.currentRowSets :
                    \E j \in DOMAIN loc.currentRowSets :
                        /\ loc.currentRowSets[j] = loc.currentRowSets[i]
                        /\ ~hasWall(maze', <<j, loc.rowIndex>>, "S")
                        /\ ~hasWall(maze', <<j, loc.rowIndex + 1>>, "N")]_vars
    /\ [](pc # "eller_thrown")
    /\ [](pc = "eller_returned" => SpanningTree(maze))

C11_Witness ==
    /\ pc = "eller_returned"
    /\ height >= 3
    /\ \E i \in 0..(width - 1) :
          ~hasWall(maze, <<i, 0>>, "S") /\ hasWall(maze, <<i, 1>>, "S")
    /\ \E i \in 0..(width - 2) : hasWall(maze, <<i, height - 1>>, "E")

\* C12: generatePrims visits every cell by carving: its loop never stops on
\* the 2*cells iteration cap or on an empty frontier with a cell unvisited,
\* the emergency marking never runs, and the returned maze is a spanning tree
C12_PrimsSpanningTree ==
    /\ pc \in {"prims_loop", "prims_returned", "prims_thrown"} =>
          /\ ~loc.emergency
          /\ (loc.iterationCount >= width * height * 2 \/ loc.frontierWalls = {})
                => visited = CellsOf(width, height)
          /\ loc.totalVisited = Cardinality(visited)
          /\ Cardinality(OpenInternalEdges(maze)) = loc.totalVisited - 1
    /\ pc # "prims_thrown"
    /\ pc = "prims_returned" => SpanningTree(maze)

C12_Witness ==
    /\ pc = "prims_returned"
    /\ width * height >= 6
    /\ loc.iterationCount > width * height
    /\ loc.frontierWalls # {}

\* the walk of generateHuntAndKill is stuck: every in-bounds neighbour of
\* the current cell is visited
WalkStuck ==
    \A dir \in Dirs :
        InBounds(width, height, Neighbor(cur, dir)) => Neighbor(cur, dir) \in visited

\* the unvisited cells that have a visited neighbour
Huntable ==
    {c \in CellsOf(width, height) \ visited :
        \E dir \in Dirs : Neighbor(c, dir) \in visited}

C15_AldousBroderCarvesOnFirstEntry ==
    /\ [][(pc = "ab_walk" /\ pc' = "ab_walk") =>
            /\ \E dir \in Dirs : cur' = Neighbor(cur, dir)
            /\ IF cur' \in visited
               THEN maze' = maze /\ visited' = visited
               ELSE /\ visited' = visited \cup {cur'}
                    /\ \E dir \in Dirs :
                         /\ cur' = Neighbor(cur, dir)
                         /\ maze' = OpenedOn(maze, <<cur, dir>>)]_vars
    /\ [](pc = "ab_returned" =>
            /\ visited = CellsOf(width, height)
            /\ SpanningTree(maze))

C15_Witness ==
    /\ pc = "ab_returned"
    /\ width * height >= 6
    /\ loc.walkSteps > 2 * width * height


\* the columns of the run of row y that holds column x: the cells joined to
\* (x, y) by open East sides along the row
RunOf(m, x, y) ==
    {x2 \in 0..(m.width - 1) :
        \A k \in 0..(m.width - 2) :
            ((x2 <= k /\ k < x) \/ (x <= k /\ k < x2)) => ~hasWall(m, <<k, y>>, "E")}

\* C16: generateSidewinder carves the top row fully eastward and, on closing
\* a run of a lower row, opens exactly one passage north, from a cell of that
\* run; in the returned maze every run of a lower row has exactly one cell
\* open to the north and the maze is a spanning tree
C16_SidewinderOneNorthPerRun ==
    /\ [][pc = "sw_cell" =>
            LET c == <<loc.x, loc.y>>
                carvedEast == /\ loc.x < width - 1
                              /\ maze' = OpenedOn(maze, <<c, "E">>)
            IN IF loc.y = 0
               THEN IF loc.x < width - 1 THEN carvedEast ELSE maze' = maze
               ELSE \/ carvedEast
                    \/ \E rx \in RunOf(maze, loc.x, loc.y) :
                         /\ rx <= loc.x
                         /\ maze' = OpenedOn(maze, <<<<rx, loc.y>>, "N">>)]_vars
    /\ [](pc # "sw_thrown")
    /\ [](pc = "sw_returned" =>
            /\ \A x \in 0..(width - 2) : ~hasWall(maze, <<x, 0>>, "E")
            /\ \A y \in 1..(height - 1) : \A x \in 0..(width - 1) :
                 Cardinality({x2 \in RunOf(maze, x, y) :
                                 ~hasWall(maze, <<x2, y>>, "N")}) = 1
            /\ SpanningTree(maze))

C16_Witness ==
    /\ pc = "sw_returned"
    /\ loc.version = "fixed"
    /\ \E y \in 1..(height - 1) :
         /\ Cardinality(RunOf(maze, 0, y)) = 2
         /\ ~hasWall(maze, <<0, y>>, "N")
         /\ Cardinality(RunOf(maze, 2, y)) = 1

C16_WitnessWorking ==
    /\ pc = "sw_returned"
    /\ loc.version = "working"
    /\ \E y \in 1..(height - 1) :
         /\ Cardinality(RunOf(maze, 0, y)) = 2
         /\ ~hasWall(maze, <<1, y>>, "N")


\* the cells of the maze with exactly one open side
DeadEndCells(m) ==
    {c \in DOMAIN m.cells : Cardinality({dir \in Dirs : ~hasWall(m, c, dir)}) = 1}

\* generateBraided is past its base algorithm and has not finished
Braiding == loc.fn = "braided" /\ (BaseReturned \/ pc = "br_loop")

PostReturned == pc \in {"br_returned", "sl_returned"}

PostThrown == pc \in {"br_thrown", "sl_thrown"}

C19_WitnessThrown == PostThrown /\ ~isValid(maze) /\ loc.fn = "braided"

\* the fraction the caller passed to generateSparseLoop
GivenFraction ==
    IF "loopFraction" \in DOMAIN loc.options
    THEN loc.options.loopFraction ELSE loc.options.loopiness

\* the adjacent-cell pairs walled on both sides in a perfect base maze
BasePairs == Cardinality(AllGridEdges(width, height)) - (width * height - 1)

\* C20: the maze returned by generateSparseLoop has floor(loopFraction * C)
\* more open internal edges than the perfect base maze, C being the number
\* of adjacent-cell pairs walled on both sides in the base maze; none more
\* with loopFraction = 0
C20_SparseLoopOpensFraction ==
    pc = "sl_returned" =>
        Cardinality(OpenInternalEdges(maze)) =
            width * height - 1 + (GivenFraction[1] * BasePairs) \div GivenFraction[2]


\* generateMultiLayer has returned its maze (either version)
MLReturned == pc \in {"ml_returned", "mls_returned"}

\* the layers and portals options are given and within their ranges
OptionsInRange == options.layers \in 2..5 /\ options.portals \in 1..10

\* C21: with layers L in 2..5 and portals P in 1..10, generateMultiLayer
\* returns a maze L*width wide and height high whose portal list has
\* min(P, (L-1)*height) entries at pairwise distinct seam positions, each
\* from the last column of a layer to the same row of the next layer's
\* first column
C21_MultiLayerPortalList ==
    (MLReturned /\ OptionsInRange) =>
        /\ maze.width = options.layers * width
        /\ maze.height = height
        /\ Len(portalList) = (IF options.portals < (options.layers - 1) * height
                              THEN options.portals
                              ELSE (options.layers - 1) * height)
        /\ \A i \in 1..Len(portalList) : \A j \in 1..Len(portalList) :
              i # j => portalList[i] # portalList[j]
        /\ \A i \in 1..Len(portalList) :
              /\ \E k \in 1..(options.layers - 1) :
                    portalList[i].from[1] = k * width - 1
              /\ portalList[i].from[2] \in 0..(height - 1)
              /\ portalList[i].to = <<portalList[i].from[1] + 1, portalList[i].from[2]>>

C21_Witness ==
    /\ pc = "mls_returned"
    /\ options.layers = 2 /\ options.portals = 3
    /\ height = 2
    /\ Len(portalList) = 2

C21_WitnessFewer ==
    /\ pc = "ml_returned"
    /\ options.layers = 3 /\ options.portals = 2
    /\ Len(portalList) = 2
    /\ portalList[1].from[1] = portalList[2].from[1]


\* C22: in the maze generateMultiLayer returns, at every seam position the
\* east wall of the left cell equals the west wall of the right cell, and
\* both are absent when either was absent in the copied layers
C22_SeamsSymmetricOpenIfEither ==
    MLReturned =>
        \A k \in 1..(Len(mazes) - 1) : \A y \in 0..(height - 1) :
            LET left == <<k * width - 1, y>>
                right == <<k * width, y>>
            IN /\ hasWall(maze, left, "E") <=> hasWall(maze, right, "W")
               /\ (~hasWall(mazes[k], <<width - 1, y>>, "E")
                     \/ ~hasWall(mazes[k + 1], <<0, y>>, "W"))
                    => (~hasWall(maze, left, "E") /\ ~hasWall(maze, right, "W"))

\* the maze with a wall on every side whose matching side of the neighbour
\* has one: its open sides are the passages open on both sides
BothSidesOpen(m) ==
    [m EXCEPT !.cells = [c \in DOMAIN m.cells |->
        m.cells[c] \cup
            {dir \in Dirs : /\ InBounds(m.width, m.height, Neighbor(c, dir))
                            /\ hasWall(m, Neighbor(c, dir), opposite(dir))}]]

\* C23: in the maze generateMultiLayer returns, every cell of every layer is
\* reachable from start through passages open on both sides
C23_MultiLayerConnectedBothSides ==
    MLReturned => FullyConnected(BothSidesOpen(maze))


\* an option is given (0 stands for a missing option) and out of its range
OptionsOutOfRange ==
    \/ options.layers # 0 /\ options.layers \notin 2..5
    \/ options.portals # 0 /\ options.portals \notin 1..10

\* C24: generateMultiLayer called with layers outside 2..5 or portals outside
\* 1..10 returns no maze
C24_OutOfRangeOptionsRejected == OptionsOutOfRange => ~MLReturned


\* C25: when a random walk of generateWilsons has used up its step cap, the
\* function fails: it does not go back to its main loop and returns no maze
C25_WilsonsCapOverrunThrows ==
    [][(pc = "wilsons_walk" /\ walkSteps >= width * height * 10) =>
          pc' \notin {"wilsons_loop", "wilsons_walk", "wilsons_returned"}]_vars


\* C30: on a maze whose walls are symmetric, isConnected returns true exactly
\* when every cell of the grid is reachable from start over open sides
\* between cells of the grid
C30_IsConnectedIffAllReachable ==
    (pc = "conn_returned" /\ Symmetric(maze)) =>
        (loc.result <=> ReachableFrom(maze, {maze.start}) = CellsOf(width, height))

C30_Witness ==
    /\ pc = "conn_returned" /\ Symmetric(maze)
    /\ loc.result
    /\ maze.start # <<0, 0>>
    /\ Cardinality(OpenInternalEdges(maze)) = width * height

C30_WitnessFalse ==
    /\ pc = "conn_returned" /\ Symmetric(maze)
    /\ ~loc.result
    /\ Cardinality(OpenInternalEdges(maze)) >= width * height - 1


\* a number that is no integer or is below 2
BadDimension(v) == v \notin {n + n : n \in 2..v}

\* a position that is given and lies outside a grid of w by h cells
OutsideGrid(p, w, h) ==
    p # <<>> /\ (p[1] < 0 \/ p[2] < 0 \/ p[1] + p[1] >= w \/ p[2] + p[2] >= h)

\* C26: a generation function called with a width or height that is no
\* integer or is below 2 throws and returns no maze, and the Maze constructor
\* called with a start or finish outside the grid throws
C26_InvalidInputThrows ==
    /\ (/\ loc.call.fn \in Generators
        /\ BadDimension(loc.call.width) \/ BadDimension(loc.call.height))
           => pc \in {"call", "gen_thrown"}
    /\ (/\ loc.call.fn = "Maze"
        /\ \/ OutsideGrid(loc.call.start, loc.call.width, loc.call.height)
           \/ OutsideGrid(loc.call.finish, loc.call.width, loc.call.height))
           => (pc \in {"call", "maze_thrown"} /\ loc.obj = <<>>)

C26_Witness ==
    /\ pc = "gen_thrown"
    /\ loc.call.fn = "wilsons"
    /\ loc.call.width = 5 /\ loc.call.height = 4

C26_WitnessPosition ==
    /\ pc = "maze_thrown"
    /\ loc.call.width = 4 /\ loc.call.height = 6
    /\ loc.call.start = <<1, 2>> /\ loc.call.finish = <<2, 0>>

\* C27: right after a maze is constructed without a supplied cell grid,
\* every cell has all four walls
C27_NewMazeFullyWalled ==
    (pc = "constructed" /\ loc.call.cells = <<>>) =>
        \A y \in DOMAIN loc.obj.cells : \A x \in DOMAIN loc.obj.cells[y] :
            loc.obj.cells[y][x] = {"N", "E", "S", "W"}

\* width and height are integers >= 2, the grid has height rows of width
\* MazeCell entries, start and finish are inside the grid, and some cell
\* has fewer than four walls
WellFormed(o) ==
    \E w \in 2..o.width, h \in 2..o.height :
        /\ o.width = w + w /\ o.height = h + h
        /\ DOMAIN o.cells = 1..h
        /\ \A y \in 1..h : o.cells[y] \in [1..w -> SUBSET {"N", "E", "S", "W"}]
        /\ o.start \in (0..(w - 1)) \X (0..(h - 1))
        /\ o.finish \in (0..(w - 1)) \X (0..(h - 1))
        /\ \E y \in 1..h, x \in 1..w : o.cells[y][x] # {"N", "E", "S", "W"}

\* C28: isValid() returns true exactly when width and height are integers
\* >= 2, the grid has height rows of width MazeCell entries, start and finish
\* are within bounds and at least one cell has fewer than four walls, and
\* returns false otherwise
C28_IsValidExact ==
    pc = "isvalid_returned" => (loc.result <=> WellFormed(loc.obj))

C28_Witness ==
    /\ pc = "isvalid_returned" /\ loc.result
    /\ loc.call.cells # <<>>
    /\ loc.obj.start = <<1, 1>>

C28_WitnessAllWalled ==
    /\ pc = "isvalid_returned" /\ ~loc.result
    /\ loc.obj.width = 4 /\ loc.obj.height = 4
    /\ loc.obj.cells = [y \in 1..2 |-> [x \in 1..2 |-> {"N", "E", "S", "W"}]]

C28_WitnessNotInteger ==
    /\ pc = "isvalid_returned" /\ ~loc.result
    /\ loc.obj.width = 5
    /\ Len(loc.obj.cells) = 2

\* C29: for a valid maze m, Maze.from(m.toJSON()) is a maze with the width,
\* height, start, finish, walls of every cell and portal and layer metadata
\* of m
C29_RoundTripKeepsMaze ==
    (pc \in {"from_returned", "from_thrown"} /\ WellFormed(loc.obj)) =>
        /\ pc = "from_returned"
        /\ loc.copy.width = loc.obj.width /\ loc.copy.height = loc.obj.height
        /\ loc.copy.start = loc.obj.start /\ loc.copy.finish = loc.obj.finish
        /\ loc.copy.cells = loc.obj.cells
        /\ loc.copy.meta = loc.obj.meta


\* the stage of handleGenerate a position belongs to: generation,
\* balanceDistribution, ensureSinglePath, the final check and rendering
StageOf(p) ==
    IF p \in {"bal_call", "bal_phase1", "bal_phase2", "bal_returned",
              "bal_thrown", "bal_thrown_final"} THEN 2
    ELSE IF p \in {"esp_call", "esp_loop", "esp_returned", "esp_thrown"} THEN 3
    ELSE IF p \in {"hg_final", "hg_rendered", "hg_thrown"} THEN 4
    ELSE 1

\* the sides of cells that have no wall
OpenSidesOf(m) == {sd \in (DOMAIN m.cells) \X Dirs : ~hasWall(m, sd[1], sd[2])}

\* C31: in handleGenerate the stages on one maze come in the order
\* generation, balanceDistribution (if requested), ensureSinglePath (if
\* requested), final isValid check and rendering, and no passage is opened
\* after ensureSinglePath has run
C31_StagesInOrder ==
    /\ [][StageOf(pc') >= StageOf(pc)]_vars
    /\ [](StageOf(pc) = 2 => loc.balanceDist)
    /\ [](StageOf(pc) = 3 => loc.singlePath)
    /\ [](pc = "hg_rendered" =>
            /\ loc.balanceDist => target # <<>> /\ currentDist # <<>>
            /\ (loc.singlePath /\ loc.algorithm = "multi-layer") =>
                  Len(entries) = (IF loc.balanceDist THEN 2 ELSE 1))
    /\ [][(StageOf(pc) >= 3 /\ pc \notin {"esp_call", "esp_loop"}) =>
              OpenSidesOf(maze') \subseteq OpenSidesOf(maze)]_vars

C31_Witness ==
    /\ pc = "hg_rendered"
    /\ loc.balanceDist /\ loc.singlePath /\ loc.algorithm = "multi-layer"
    /\ threeWayIncrease > 0
    /\ edgesRemoved > 0


\* two cells of the grid that share a side
AdjacentCells(a, b) ==
    (a[1] = b[1] /\ (a[2] - b[2]) \in {-1, 1}) \/ (a[2] = b[2] /\ (a[1] - b[1]) \in {-1, 1})

\* C32: during a loop-erased walk of generateWilsons the path holds no cell
\* twice, consecutive entries are adjacent, the walk's position is adjacent
\* or equal to the last entry, and when the walk steps on a cell of its path
\* the path is cut so that this cell stays as its last entry
C32_WilsonsPathLoopErased ==
    /\ [](pc = "wilsons_walk" =>
            /\ \A i \in 1..Len(path) : \A j \in 1..Len(path) : path[i] = path[j] => i = j
            /\ \A i \in 1..(Len(path) - 1) : AdjacentCells(path[i], path[i + 1])
            /\ Len(path) > 0 =>
                  (cur = path[Len(path)] \/ AdjacentCells(cur, path[Len(path)])))
    /\ [][(/\ pc = "wilsons_walk" /\ pc' = "wilsons_walk"
           /\ walkSteps' = walkSteps + 1
           /\ \E i \in 1..Len(path) : path[i] = cur) =>
              (Len(path') > 0 /\ path'[Len(path')] = cur)]_vars


\* the element reached from x by following parent links n times
RECURSIVE Ancestor(_, _, _)
Ancestor(parent, x, n) == IF n = 0 THEN x ELSE Ancestor(parent, parent[x], n - 1)

\* the index of a cell in the union-find structure, row by row
IndexOfCell(c) == c[2] * width + c[1]

\* C33: at every step of the edge loop of generateKruskals two cells have the
\* same union-find root exactly when they are connected through carved
\* passages, and the component counter is width*height minus the number of
\* edges carved so far
C33_UnionFindMatchesMaze ==
    pc \in {"kruskals_loop", "kruskals_end"} =>
        LET root == [c \in CellsOf(width, height) |->
                        Ancestor(uf.parent, IndexOfCell(c), width * height)]
            reach == [c \in CellsOf(width, height) |-> ReachableFrom(maze, {c})]
        IN /\ \A a \in CellsOf(width, height) : \A b \in CellsOf(width, height) :
                 (root[a] = root[b]) <=> b \in reach[a]
           /\ uf.components = width * height - Cardinality(OpenInternalEdges(maze))

C33_Witness ==
    /\ pc = "kruskals_loop"
    /\ Cardinality(OpenInternalEdges(maze)) = 3
    /\ uf.components = width * height - 3
    /\ \E i \in DOMAIN uf.parent : uf.parent[uf.parent[i]] # uf.parent[i]
    /\ Cardinality(edges) < Cardinality(AllGridEdges(width, height)) - 3


\* the maze with a wall on both sides of an edge, all else as in m
ClosedOn(m, edge) ==
    [m EXCEPT !.cells = [c \in DOMAIN m.cells |->
        IF c = edge[1] THEN m.cells[c] \cup {edge[2]}
        ELSE IF c = Neighbor(edge[1], edge[2]) THEN m.cells[c] \cup {opposite(edge[2])}
        ELSE m.cells[c]]]

\* C34: in ensureSinglePath a candidate edge is closed for good only if the
\* maze is fully connected with it closed, a rejected candidate leaves the
\* maze exactly as it was, a maze connected at entry stays connected after
\* every iteration, and the loop stops as soon as the number of closed edges
\* is (open edges at entry) - (width*height - 1)
C34_SinglePathClosesOnlyCycleEdges ==
    /\ [][(pc = "esp_loop" /\ pc' = "esp_loop" /\ edges' # edges) =>
            \E edge \in edges \ edges' :
                \/ maze' = maze /\ edgesRemoved' = edgesRemoved
                \/ /\ maze' = ClosedOn(maze, edge)
                   /\ FullyConnected(maze')
                   /\ edgesRemoved' = edgesRemoved + 1]_vars
    /\ []((pc \in {"esp_loop", "esp_returned"} /\ calls >= 1
             /\ FullyConnected(entries[calls])) => FullyConnected(maze))
    /\ [][(/\ pc = "esp_loop"
           /\ Cardinality(OpenInternalEdges(entries[calls]))
                 - Cardinality(OpenInternalEdges(maze))
                 = Cardinality(OpenInternalEdges(entries[calls]))
                      - (width * height - 1)) =>
              ~(pc' = "esp_loop" /\ edges' # edges)]_vars

\* floor(|count/total - t/TargetDen| * total)
FloorOfGap(count, total, t) ==
    (IF count * TargetDen >= t * total THEN count * TargetDen - t * total
     ELSE t * total - count * TargetDen) \div TargetDen

\* the cells of the maze with exactly k open sides
CellsOpenOn(m, k) ==
    {c \in DOMAIN m.cells : Cardinality({d \in Dirs : d \notin m.cells[c]}) = k}

\* one wall pair opened between m and n, or nothing at all
OpensAtMostOneEdge(m, n) ==
    /\ OpenSidesOf(m) \subseteq OpenSidesOf(n)
    /\ Cardinality(OpenSidesOf(n) \ OpenSidesOf(m)) <= 2

\* C35: each phase of balanceDistribution opens at most budget walls and runs
\* at most 3*budget iterations, budget being floor(|current ratio - target
\* ratio| * totalCells) taken when the phase starts; so the call terminates
C35_BalancePhasesBounded ==
    /\ [][(pc = "bal_call" /\ pc' = "bal_phase1") =>
            /\ maxDeadEndReductions' <=
                   FloorOfGap(Cardinality(CellsOpenOn(maze, 1)), width * height,
                              target.deadEnds)
            /\ deadEndReductions' = 0 /\ attempts' = 0]_vars
    /\ [][(pc = "bal_phase1" /\ pc' = "bal_phase2") =>
            /\ maxThreeWayIncrease' <=
                   FloorOfGap(Cardinality(CellsOpenOn(maze, 3)), width * height,
                              target.threeWay)
            /\ threeWayIncrease' = 0 /\ attempts' = 0]_vars
    /\ [][(pc = "bal_phase1" /\ pc' = "bal_phase1") =>
            /\ attempts' = attempts + 1
            /\ OpensAtMostOneEdge(maze, maze')
            /\ deadEndReductions' =
                   deadEndReductions + (IF maze' = maze THEN 0 ELSE 1)]_vars
    /\ [][(pc = "bal_phase2" /\ pc' = "bal_phase2") =>
            /\ attempts' = attempts + 1
            /\ OpensAtMostOneEdge(maze, maze')
            /\ threeWayIncrease' =
                   threeWayIncrease + (IF maze' = maze THEN 0 ELSE 1)]_vars
    /\ [](pc = "bal_phase1" =>
            /\ deadEndReductions <= maxDeadEndReductions
            /\ attempts <= 3 * maxDeadEndReductions
            /\ Cardinality(OpenSidesOf(maze)) - Cardinality(OpenSidesOf(entries[calls]))
                 <= 2 * FloorOfGap(Cardinality(CellsOpenOn(entries[calls], 1)),
                                   width * height, target.deadEnds))
    /\ [](pc \in {"bal_phase2", "bal_returned", "bal_thrown_final"} =>
            /\ threeWayIncrease <= maxThreeWayIncrease
            /\ attempts <= 3 * maxThreeWayIncrease)
    /\ <>(pc \in {"bal_returned", "bal_thrown", "bal_thrown_final"})

\* both phases have opened a wall and the junction phase has spent an
\* iteration that opened nothing
C35_Witness ==
    /\ pc = "bal_returned"
    /\ deadEndReductions >= 1
    /\ threeWayIncrease >= 1
    /\ attempts > threeWayIncrease

\* the open sides of the maze that face a cell of the grid
OpenInnerSides(m) ==
    {sd \in OpenSidesOf(m) : Neighbor(sd[1], sd[2]) \in DOMAIN m.cells}

\* C36: generateBraided opens a wall at a listed cell only if the cell has
\* exactly one open side at that moment (a listed cell that is no longer a
\* dead end is passed over untouched), only toward an in-bounds neighbour
\* whose matching wall is present, and it opens at most
\* floor(initialDeadEnds * braidness) walls in total
C36_BraidedOpensOnlyAtDeadEnds ==
    /\ [][(pc = "br_loop" /\ pc' = "br_loop" /\ maze' # maze) =>
            \E c \in DeadEndCells(entries[1]) \cap loc.todo : \E dir \in Dirs :
                /\ c \in DeadEndCells(maze)
                /\ dir \in maze.cells[c]
                /\ Neighbor(c, dir) \in DOMAIN maze.cells
                /\ opposite(dir) \in maze.cells[Neighbor(c, dir)]
                /\ maze' = OpenedOn(maze, <<c, dir>>)
                /\ loc'.todo = loc.todo \ {c}]_vars
    /\ [][(/\ pc = "br_loop" /\ pc' = "br_loop"
           /\ \E c \in loc.todo \ loc'.todo : c \notin DeadEndCells(maze)) =>
            maze' = maze]_vars
    /\ []((pc = "br_loop" /\ loc.processedDeadEnds = 0) =>
            loc.todo = DeadEndCells(entries[1]) /\ maze = entries[1])
    /\ [](pc \in {"br_loop", "br_returned", "br_thrown"} =>
            Cardinality(OpenInnerSides(maze)) - Cardinality(OpenInnerSides(entries[1]))
                <= 2 * ((Cardinality(DeadEndCells(entries[1])) * loc.braidness) \div 2))

\* half of an odd number of dead ends was to be removed, the target was
\* met, and a listed cell that had stopped being a dead end was passed over
C36_Witness ==
    /\ pc = "br_returned"
    /\ loc.braidness = 1
    /\ Cardinality(DeadEndCells(entries[1])) \in {5, 7}
    /\ loc.actualRemovals = Cardinality(DeadEndCells(entries[1])) \div 2
    /\ loc.processedDeadEnds > loc.actualRemovals
    /\ Cardinality(OpenInnerSides(maze))
           = Cardinality(OpenInnerSides(entries[1])) + 2 * loc.actualRemovals


\* C37: generateAldousBroder throws its step-budget error only if some cell
\* is still unvisited when the cap of (width*height)^2 walk steps is reached;
\* a walk that has visited every cell by its final permitted step returns
\* the finished maze
C37_AldousBroderThrowsOnlyUnfinished ==
    /\ [](pc = "ab_thrown" => visited # CellsOf(width, height))
    /\ [][(pc = "ab_walk" /\ pc' # "ab_walk" /\ visited = CellsOf(width, height)) =>
            (pc' = "ab_returned" /\ FullyConnected(maze'))]_vars


\* C38: balanceDistribution never moves the dead-end ratio past
\* target.deadEnds: called on a maze whose walls agree on both sides, during
\* both phases and after the call the fraction of dead-end cells is at least
\* min(fraction at entry, target.deadEnds)
C38_BalanceNeverPastTarget ==
    (pc \in {"bal_phase1", "bal_phase2", "bal_returned"} /\ Symmetric(entries[calls])) =>
        Cardinality(DeadEndCells(maze)) * TargetDen
            >= Min(Cardinality(DeadEndCells(entries[calls])) * TargetDen,
                   target.deadEnds * (width * height))


\* the handleGenerate invocations that have called setGenerating(true) and
\* not yet setGenerating(false)
Generating == {i \in DOMAIN loc.invocations : loc.invocations[i] = "awaiting"}

\* C39: under every interleaving of clicks, timers and animation frames at
\* most one handleGenerate invocation is between its setGenerating(true) and
\* its setGenerating(false); a handlePrintWorksheet run during the await of
\* a generation does not let a second generation start
C39_OneGenerationAtATime == Cardinality(Generating) <= 1

====
